---- MODULE Spec2Model ----
(***************************************************************************)
(* A model of the MedPerf client's resource cache                          *)
(* (cli/medperf/comms/entity_resources) and of the parameter validator of  *)
(* the compatibility test (cli/medperf/commands/compatibility_test).       *)
(*                                                                         *)
(* The file system is modelled path by path.  A path holds 0 (absent) or   *)
(* the identifier of the byte content stored there; a directory extracted  *)
(* from a tarball is named by the content of that tarball.                 *)
(***************************************************************************)
EXTENDS Integers, Sequences, FiniteSets, TLC

VARIABLES
    files,       \* [cube, file name] -> content of mlcube.yaml / parameters.yaml
    images,      \* config.images_folder: hash name -> content of the image file
    links,       \* cube -> target of <cube>/workspace/.image/<name> (a symlink)
    additional,  \* cube -> content of <cube>/workspace/additional_files
    cacheMeta,   \* cube -> additional_files_cached_hash of the side-car file
    demos,       \* config.demo_datasets_folder: hash name -> extracted content
    call,        \* the cache operation in progress and its position
    prev,        \* the call completed before the current one
    pre,         \* what the final path of the current call held when it began
    ncalls,      \* number of calls begun
    vin,         \* the validator's inputs
    vst,         \* the validator's flags, position and outcome
    run,         \* the compatibility test in progress: arguments, stage, outcome
    reports,     \* the persisted test reports, by generated uid
    past,        \* what the caller kept of the previous compatibility test
    nruns,       \* the number of compatibility tests started
    legacy,      \* the test of commands/compatibility_test.py in progress
    legacyResults, \* the results stored by the executions of that test
    assoc,       \* AssociateDataset.run in progress and the requests it sent
    bexec,       \* BenchmarkExecution.run in progress and the results storage
    auth,        \* the stored credentials, the clock and Auth0.access_token in progress
    server       \* the benchmarks of the server and the requests it is serving

vars == <<files, images, links, additional, cacheMeta, demos, call, prev, pre, ncalls, vin, vst,
          run, reports, past, nruns, legacy, legacyResults, assoc,
          bexec, auth, server>>

\* The state of the compatibility test pipeline.
pipeVars == <<run, reports, past, nruns>>

\* The state of the compatibility test of commands/compatibility_test.py.
legacyVars == <<legacy, legacyResults>>

\* The state of the other commands and of the server.
restVars == <<assoc, bexec, auth, server>>

----------------------------------------------------------------------------
(* Bounds *)

NumContents == 2
NumUrls == 3
MaxCalls == 2
MaxRuns == 2        \* compatibility tests made one after the other
NumResults == 2     \* distinct result payloads of the execution
MaxClock == 2       \* seconds that pass during the tests of commands/compatibility_test.py
MaxModels == 2      \* models given to one BenchmarkExecution.run
MaxTime == 3        \* seconds that pass while access tokens are read
MaxUpdates == 3     \* update requests served for one benchmark
MaxRequests == 3    \* benchmark creation requests served at a time

----------------------------------------------------------------------------
(* Values *)

Contents == 1..NumContents
Absent == 0

\* Descriptor 0 is a string no source recognises; the others are URLs.
Descriptors == 0..NumUrls

\* The bytes the remote serves for a URL: the first and the last URL serve
\* the same bytes.
Remote(url) == ((url - 1) % NumContents) + 1

NoHash == <<"None", 0>>

\* get_file_hash: a digest that differs for different bytes.
get_file_hash(content) == <<"sha256", content>>

Hashes == {get_file_hash(c) : c \in Contents}

Cubes == {"cubeA"}

cube_filename == "mlcube.yaml"
params_filename == "parameters.yaml"
FileNames == {cube_filename, params_filename}

Ops == {"get_cube", "get_cube_params", "get_cube_image", "get_cube_additional",
        "get_benchmark_demo_dataset"}

Procs == {1}

\* The arguments of CompatibilityTestParamsValidator; "" is an argument left
\* empty (None), any other string is a supplied value.
InputNames == {"benchmark_uid", "data_prep", "model", "evaluator", "data_path",
               "labels_path", "demo_dataset_url", "demo_dataset_hash", "data_uid"}
InputValues == {"", "x"}

IdleCall == [op |-> "none", url |-> 0, cube |-> "cubeA", hash |-> NoHash,
             pc |-> "idle", tmp |-> "none", tmpc |-> Absent, dl |-> 0,
             ret |-> NoHash, out |-> "none", err |-> "none", steps |-> <<>>]

Finished(c) == c.pc \in {"idle", "done", "failed"}

----------------------------------------------------------------------------
(* Helpers of medperf.utils and of the resource sources *)

\* verify_hash(obtained_hash, expected_hash): TRUE when there is no expected
\* hash or the two are equal; FALSE stands for the integrity error it raises.
verify_hash(obtained_hash, expected_hash) ==
    ~(expected_hash # NoHash /\ expected_hash # obtained_hash)

\* validate_resource of the sources in supported_sources, scanned in order:
\* TRUE when some source accepts the descriptor.
Recognised(resource) == resource \in 1..NumUrls

\* verify_or_get_hash: the calculated hash, "raise" when verify_hash raises.
verify_or_get_hash(content, expected_hash) ==
    LET calculated_hash == get_file_hash(content)
    IN  IF verify_hash(calculated_hash, expected_hash) THEN calculated_hash
        ELSE <<"raise", 0>>

Raised == <<"raise", 0>>

\* _should_get_cube / _should_get_cube_params: "False", "True", or "raise"
\* when verify_or_get_hash raises on the existing file.
should_get_cube(content, expected_hash) ==
    IF content # Absent /\ expected_hash # NoHash
    THEN IF verify_or_get_hash(content, expected_hash) = Raised THEN "raise"
         ELSE "False"
    ELSE "True"

\* _should_get_cube_additional: FALSE when the folder exists and the side-car
\* file records the expected tarball hash.
should_get_cube_additional(folder, expected_tarball_hash, cached_hash) ==
    ~(folder # Absent /\ expected_tarball_hash # NoHash
      /\ cached_hash = expected_tarball_hash)

\* The name of an object in the shared images / demo datasets storage.
img_storage(hash_value) == hash_value
demo_dataset_folder(hash_value) == hash_value

FileName(op) == IF op = "get_cube" THEN cube_filename ELSE params_filename

\* What a caller keeps of a call that is over: of a call that returned, its
\* arguments, the hash it returned and the number of downloads it made; of a
\* call that raised, the operation and the number of downloads.
Summary(c) ==
    IF c.pc = "done"
    THEN [op |-> c.op, url |-> c.url, cube |-> c.cube, hash |-> c.hash,
          pc |-> c.pc, ret |-> c.ret, dl |-> c.dl]
    ELSE [op |-> c.op, url |-> 0, cube |-> c.cube, hash |-> NoHash,
          pc |-> c.pc, ret |-> NoHash, dl |-> c.dl]

Fail(c, error) == [c EXCEPT !.pc = "failed", !.err = error]

\* The steps of download_resource a call has entered, in their order.
Step(c, entered) == [c EXCEPT !.steps = @ \o entered]

Snapshot == [files |-> files, images |-> images, links |-> links,
             additional |-> additional, cacheMeta |-> cacheMeta, demos |-> demos]

----------------------------------------------------------------------------
(* The cache operations, statement by statement *)

\* A caller starts one of the five operations.
Begin(p) ==
    /\ Finished(call[p])
    /\ ncalls < MaxCalls
    /\ \E op \in Ops, url \in Descriptors, cube \in Cubes, h \in Hashes \cup {NoHash} :
          call' = [call EXCEPT ![p] = [IdleCall EXCEPT !.op = op, !.url = url,
                                          !.cube = cube, !.hash = h, !.pc = "check"]]
    /\ prev' = Summary(call[p])
    /\ pre' = Snapshot
    /\ ncalls' = ncalls + 1
    /\ UNCHANGED <<files, images, links, additional, cacheMeta, demos, vin, vst, pipeVars, legacyVars, restVars>>

\* get_cube, get_cube_params: the up-to-date check and the removal of the
\* existing file.
CheckCube(p) ==
    LET c == call[p]
        path == <<c.cube, FileName(c.op)>>
        should == should_get_cube(files[path], c.hash)
    IN  /\ c.pc = "check"
        /\ c.op \in {"get_cube", "get_cube_params"}
        /\ \/ /\ should = "False"
              /\ call' = [call EXCEPT ![p] = [c EXCEPT !.pc = "done", !.ret = c.hash,
                                                       !.out = "file"]]
              /\ UNCHANGED files
           \/ /\ should = "raise"
              /\ call' = [call EXCEPT ![p] = Fail(c, "IntegrityError")]
              /\ UNCHANGED files
           \/ /\ should = "True"
              /\ files' = [files EXCEPT ![path] = Absent]
              /\ call' = [call EXCEPT ![p] = [c EXCEPT !.pc = "fetch"]]
        /\ UNCHANGED <<images, links, additional, cacheMeta, demos, prev, pre, ncalls, vin, vst, pipeVars, legacyVars, restVars>>

\* CheckImage as it would be if the shared image were never looked up.
CheckImageAlwaysFetch(p) ==
    LET c == call[p]
    IN  /\ c.pc = "check"
        /\ c.op = "get_cube_image"
        /\ links' = [links EXCEPT ![c.cube] = NoHash]
        /\ call' = [call EXCEPT ![p] = [c EXCEPT !.pc = "fetch"]]
        /\ UNCHANGED <<files, images, additional, cacheMeta, demos, prev, pre, ncalls, vin, vst, pipeVars, legacyVars, restVars>>

\* CheckImage as it would be if a link found at the cube-local path were
\* left there.
CheckImageKeepingLink(p) ==
    LET c == call[p]
    IN  /\ c.pc = "check"
        /\ c.op = "get_cube_image"
        /\ IF c.hash = NoHash
           THEN call' = [call EXCEPT ![p] = [c EXCEPT !.pc = "fetch"]]
           ELSE IF images[img_storage(c.hash)] # Absent
                THEN call' = [call EXCEPT ![p] = [c EXCEPT !.pc = "symlink", !.ret = c.hash]]
                ELSE call' = [call EXCEPT ![p] = [c EXCEPT !.pc = "fetch"]]
        /\ UNCHANGED <<files, images, links, additional, cacheMeta, demos, prev, pre, ncalls, vin, vst, pipeVars, legacyVars, restVars>>

\* get_cube_image: unlink the cube-local link, then look for the shared image.
CheckImage(p) ==
    LET c == call[p]
    IN  /\ c.pc = "check"
        /\ c.op = "get_cube_image"
        /\ links' = [links EXCEPT ![c.cube] = NoHash]
        /\ IF c.hash = NoHash
           THEN call' = [call EXCEPT ![p] = [c EXCEPT !.pc = "fetch"]]
           ELSE IF images[img_storage(c.hash)] # Absent
                THEN call' = [call EXCEPT ![p] = [c EXCEPT !.pc = "symlink", !.ret = c.hash]]
                ELSE call' = [call EXCEPT ![p] = [c EXCEPT !.pc = "fetch"]]
        /\ UNCHANGED <<files, images, additional, cacheMeta, demos, prev, pre, ncalls, vin, vst, pipeVars, legacyVars, restVars>>

\* get_cube_additional: the staleness check against the side-car file.
CheckAdditional(p) ==
    LET c == call[p]
    IN  /\ c.pc = "check"
        /\ c.op = "get_cube_additional"
        /\ IF should_get_cube_additional(additional[c.cube], c.hash, cacheMeta[c.cube])
           THEN call' = [call EXCEPT ![p] = [c EXCEPT !.pc = "fetch"]]
           ELSE call' = [call EXCEPT ![p] = [c EXCEPT !.pc = "done", !.ret = c.hash,
                                                      !.out = "additional"]]
        /\ UNCHANGED <<files, images, links, additional, cacheMeta, demos, prev, pre, ncalls, vin, vst, pipeVars, legacyVars, restVars>>

\* get_benchmark_demo_dataset: return the hash-named folder when it exists.
CheckDemo(p) ==
    LET c == call[p]
    IN  /\ c.pc = "check"
        /\ c.op = "get_benchmark_demo_dataset"
        /\ IF c.hash # NoHash /\ demos[demo_dataset_folder(c.hash)] # Absent
           THEN call' = [call EXCEPT ![p] = [c EXCEPT !.pc = "done", !.ret = c.hash,
                                                      !.out = "demo"]]
           ELSE call' = [call EXCEPT ![p] = [c EXCEPT !.pc = "fetch"]]
        /\ UNCHANGED <<files, images, links, additional, cacheMeta, demos, prev, pre, ncalls, vin, vst, pipeVars, legacyVars, restVars>>

\* Fetch as it would be if the source authenticated after it had started
\* to receive the file.
FetchAuthenticatingLate(p) ==
    LET c == call[p]
        parsed == Step(c, <<"recognise">>)
        downloading == [Step(parsed, <<"download">>) EXCEPT !.dl = c.dl + 1]
        authenticated == Step(downloading, <<"authenticate">>)
    IN  /\ c.pc = "fetch"
        /\ \/ /\ ~Recognised(c.url)
              /\ call' = [call EXCEPT ![p] = Fail(parsed, "InvalidArgumentError")]
           \/ /\ Recognised(c.url)
              /\ call' = [call EXCEPT ![p] = [Fail(authenticated, "AuthenticationError")
                                                 EXCEPT !.tmp = "partial"]]
           \/ /\ Recognised(c.url)
              /\ call' = [call EXCEPT ![p] = Fail(downloading, "RetrievalError")]
           \/ /\ Recognised(c.url)
              /\ call' = [call EXCEPT ![p] = [authenticated EXCEPT !.pc = "stream",
                                                                   !.tmp = "partial"]]
        /\ UNCHANGED <<files, images, links, additional, cacheMeta, demos, prev, pre, ncalls, vin, vst, pipeVars, legacyVars, restVars>>

\* Fetch as it would be if the source opened the output file before it
\* looked at the status.
FetchOpeningFirst(p) ==
    LET c == call[p]
        parsed == Step(c, <<"recognise">>)
        authenticated == Step(parsed, <<"authenticate">>)
        downloading == [Step(authenticated, <<"download">>) EXCEPT !.dl = c.dl + 1,
                                                                   !.tmp = "partial"]
    IN  /\ c.pc = "fetch"
        /\ \/ /\ ~Recognised(c.url)
              /\ call' = [call EXCEPT ![p] = Fail(parsed, "InvalidArgumentError")]
           \/ /\ Recognised(c.url)
              /\ call' = [call EXCEPT ![p] = Fail(authenticated, "AuthenticationError")]
           \/ /\ Recognised(c.url)
              /\ call' = [call EXCEPT ![p] = Fail(downloading, "RetrievalError")]
           \/ /\ Recognised(c.url)
              /\ call' = [call EXCEPT ![p] = [downloading EXCEPT !.pc = "stream"]]
        /\ UNCHANGED <<files, images, links, additional, cacheMeta, demos, prev, pre, ncalls, vin, vst, pipeVars, legacyVars, restVars>>

\* tmp_download_resource up to the first byte: parse the descriptor,
\* authenticate, and start the download of the source, which raises at
\* once when the status is not 200.
Fetch(p) ==
    LET c == call[p]
        parsed == Step(c, <<"recognise">>)
        authenticated == Step(parsed, <<"authenticate">>)
        downloading == [Step(authenticated, <<"download">>) EXCEPT !.dl = c.dl + 1]
    IN  /\ c.pc = "fetch"
        /\ \/ /\ ~Recognised(c.url)
              /\ call' = [call EXCEPT ![p] = Fail(parsed, "InvalidArgumentError")]
           \/ /\ Recognised(c.url)
              /\ call' = [call EXCEPT ![p] = Fail(authenticated, "AuthenticationError")]
           \/ /\ Recognised(c.url)
              /\ call' = [call EXCEPT ![p] = Fail(downloading, "RetrievalError")]
           \/ /\ Recognised(c.url)
              /\ call' = [call EXCEPT ![p] = [downloading EXCEPT !.pc = "stream",
                                                                 !.tmp = "partial"]]
        /\ UNCHANGED <<files, images, links, additional, cacheMeta, demos, prev, pre, ncalls, vin, vst, pipeVars, legacyVars, restVars>>

\* Stream as it would be if a broken transfer were tried once more.
StreamRetrying(p) ==
    LET c == call[p]
    IN  /\ c.pc = "stream"
        /\ \/ call' = [call EXCEPT ![p] = [c EXCEPT !.pc = "verify", !.tmp = "file",
                                                    !.tmpc = Remote(c.url)]]
           \/ call' = [call EXCEPT ![p] = IF c.dl < 2
                                          THEN [c EXCEPT !.pc = "fetch", !.steps = <<>>]
                                          ELSE Fail(c, "RetrievalError")]
        /\ UNCHANGED <<files, images, links, additional, cacheMeta, demos, prev, pre, ncalls, vin, vst, pipeVars, legacyVars, restVars>>

\* PublicSource.download writes the chunks to the temporary path; the
\* transfer may break before the last chunk.
Stream(p) ==
    LET c == call[p]
    IN  /\ c.pc = "stream"
        /\ \/ call' = [call EXCEPT ![p] = [c EXCEPT !.pc = "verify", !.tmp = "file",
                                                    !.tmpc = Remote(c.url)]]
           \/ call' = [call EXCEPT ![p] = Fail(c, "RetrievalError")]
        /\ UNCHANGED <<files, images, links, additional, cacheMeta, demos, prev, pre, ncalls, vin, vst, pipeVars, legacyVars, restVars>>

\* Verify as it would be if the hash check were dropped.
VerifyNever(p) ==
    LET c == Step(call[p], <<"verify">>)
    IN  /\ c.pc = "verify"
        /\ call' = [call EXCEPT ![p] = [c EXCEPT !.pc = "promote",
                                                 !.ret = get_file_hash(c.tmpc)]]
        /\ UNCHANGED <<files, images, links, additional, cacheMeta, demos, prev, pre, ncalls, vin, vst, pipeVars, legacyVars, restVars>>

\* Verify as it would be if the file were moved to its output path before
\* the hash check.
VerifyAfterPromote(p) ==
    LET c == Step(call[p], <<"verify">>)
        calculated_hash == verify_or_get_hash(c.tmpc, c.hash)
        moved == [c EXCEPT !.tmp = "none", !.tmpc = Absent]
    IN  /\ c.pc = "verify"
        /\ IF calculated_hash = Raised
           THEN /\ call' = [call EXCEPT ![p] = Fail(moved, "IntegrityError")]
                /\ files' = IF c.op \in {"get_cube", "get_cube_params"}
                            THEN [files EXCEPT ![<<c.cube, FileName(c.op)>>] = c.tmpc]
                            ELSE files
                /\ images' = IF c.op = "get_cube_image"
                             THEN [images EXCEPT ![img_storage(c.hash)] = c.tmpc]
                             ELSE images
           ELSE /\ call' = [call EXCEPT ![p] = [c EXCEPT !.pc = "promote", !.ret = calculated_hash]]
                /\ UNCHANGED <<files, images>>
        /\ UNCHANGED <<links, additional, cacheMeta, demos, prev, pre, ncalls, vin, vst, pipeVars, legacyVars, restVars>>

\* download_resource: verify_or_get_hash on the temporary file.
Verify(p) ==
    LET c == Step(call[p], <<"verify">>)
        calculated_hash == verify_or_get_hash(c.tmpc, c.hash)
    IN  /\ c.pc = "verify"
        /\ IF calculated_hash = Raised
           THEN call' = [call EXCEPT ![p] = Fail(c, "IntegrityError")]
           ELSE call' = [call EXCEPT ![p] = [c EXCEPT !.pc = "promote", !.ret = calculated_hash]]
        /\ UNCHANGED <<files, images, links, additional, cacheMeta, demos, prev, pre, ncalls, vin, vst, pipeVars, legacyVars, restVars>>

\* Promote as it would be if the rename refused to replace an image that
\* is already at the final path.
PromoteRefusingExisting(p) ==
    LET c == Step(call[p], <<"promote">>)
    IN  /\ c.pc = "promote"
        /\ \/ /\ c.op \in {"get_cube", "get_cube_params"}
              /\ files' = [files EXCEPT ![<<c.cube, FileName(c.op)>>] = c.tmpc]
              /\ call' = [call EXCEPT ![p] = [c EXCEPT !.pc = "done", !.tmp = "none",
                                                       !.tmpc = Absent, !.out = "file"]]
              /\ UNCHANGED images
           \/ /\ c.op = "get_cube_image" /\ c.hash # NoHash
              /\ IF images[img_storage(c.hash)] # Absent
                 THEN /\ call' = [call EXCEPT ![p] = Fail(c, "FileExistsError")]
                      /\ UNCHANGED images
                 ELSE /\ images' = [images EXCEPT ![img_storage(c.hash)] = c.tmpc]
                      /\ call' = [call EXCEPT ![p] = [c EXCEPT !.pc = "symlink",
                                                               !.tmp = "none", !.tmpc = Absent]]
              /\ UNCHANGED files
           \/ /\ c.op = "get_cube_image" /\ c.hash = NoHash
              /\ call' = [call EXCEPT ![p] = [c EXCEPT !.pc = "move"]]
              /\ UNCHANGED <<files, images>>
           \/ /\ c.op \in {"get_cube_additional", "get_benchmark_demo_dataset"}
              /\ call' = [call EXCEPT ![p] = [c EXCEPT !.pc = "untar", !.tmp = "tarball"]]
              /\ UNCHANGED <<files, images>>
        /\ UNCHANGED <<links, additional, cacheMeta, demos, prev, pre, ncalls, vin, vst, pipeVars, legacyVars, restVars>>

\* Promote as it would be if the file were copied to the output path and
\* left at the temporary path.
PromoteCopying(p) ==
    LET c == Step(call[p], <<"promote">>)
    IN  /\ c.pc = "promote"
        /\ \/ /\ c.op \in {"get_cube", "get_cube_params"}
              /\ files' = [files EXCEPT ![<<c.cube, FileName(c.op)>>] = c.tmpc]
              /\ call' = [call EXCEPT ![p] = [c EXCEPT !.pc = "done", !.out = "file"]]
              /\ UNCHANGED images
           \/ /\ c.op = "get_cube_image" /\ c.hash # NoHash
              /\ images' = [images EXCEPT ![img_storage(c.hash)] = c.tmpc]
              /\ call' = [call EXCEPT ![p] = [c EXCEPT !.pc = "symlink", !.tmp = "none",
                                                       !.tmpc = Absent]]
              /\ UNCHANGED files
           \/ /\ c.op = "get_cube_image" /\ c.hash = NoHash
              /\ call' = [call EXCEPT ![p] = [c EXCEPT !.pc = "move"]]
              /\ UNCHANGED <<files, images>>
           \/ /\ c.op \in {"get_cube_additional", "get_benchmark_demo_dataset"}
              /\ call' = [call EXCEPT ![p] = [c EXCEPT !.pc = "untar", !.tmp = "tarball"]]
              /\ UNCHANGED <<files, images>>
        /\ UNCHANGED <<links, additional, cacheMeta, demos, prev, pre, ncalls, vin, vst, pipeVars, legacyVars, restVars>>

\* download_resource: to_permanent_path renames the temporary file to the
\* output path the operation asked for.
Promote(p) ==
    LET c == Step(call[p], <<"promote">>)
    IN  /\ c.pc = "promote"
        /\ \/ /\ c.op \in {"get_cube", "get_cube_params"}
              /\ files' = [files EXCEPT ![<<c.cube, FileName(c.op)>>] = c.tmpc]
              /\ call' = [call EXCEPT ![p] = [c EXCEPT !.pc = "done", !.tmp = "none",
                                                       !.tmpc = Absent, !.out = "file"]]
              /\ UNCHANGED images
           \/ /\ c.op = "get_cube_image" /\ c.hash # NoHash
              /\ images' = [images EXCEPT ![img_storage(c.hash)] = c.tmpc]
              /\ call' = [call EXCEPT ![p] = [c EXCEPT !.pc = "symlink", !.tmp = "none",
                                                       !.tmpc = Absent]]
              /\ UNCHANGED files
           \/ /\ c.op = "get_cube_image" /\ c.hash = NoHash
              /\ call' = [call EXCEPT ![p] = [c EXCEPT !.pc = "move"]]
              /\ UNCHANGED <<files, images>>
           \/ /\ c.op \in {"get_cube_additional", "get_benchmark_demo_dataset"}
              /\ call' = [call EXCEPT ![p] = [c EXCEPT !.pc = "untar", !.tmp = "tarball"]]
              /\ UNCHANGED <<files, images>>
        /\ UNCHANGED <<links, additional, cacheMeta, demos, prev, pre, ncalls, vin, vst, pipeVars, legacyVars, restVars>>

\* Move as it would be if the image were stored under a name derived from
\* the descriptor instead of the calculated hash.
MoveByDescriptor(p) ==
    LET c == call[p]
        name == get_file_hash(IF c.url < NumContents THEN c.url ELSE NumContents)
    IN  /\ c.pc = "move"
        /\ images' = [images EXCEPT ![name] = c.tmpc]
        /\ call' = [call EXCEPT ![p] = [c EXCEPT !.pc = "symlink", !.tmp = "none",
                                                 !.tmpc = Absent, !.ret = name]]
        /\ UNCHANGED <<files, links, additional, cacheMeta, demos, prev, pre, ncalls, vin, vst, pipeVars, legacyVars, restVars>>

\* get_cube_image without a hash: shutil.move of the temporary file to the
\* image storage named by the calculated hash.
Move(p) ==
    LET c == call[p]
    IN  /\ c.pc = "move"
        /\ images' = [images EXCEPT ![img_storage(c.ret)] = c.tmpc]
        /\ call' = [call EXCEPT ![p] = [c EXCEPT !.pc = "symlink", !.tmp = "none",
                                                 !.tmpc = Absent]]
        /\ UNCHANGED <<files, links, additional, cacheMeta, demos, prev, pre, ncalls, vin, vst, pipeVars, legacyVars, restVars>>

\* untar of the tarball inside the temporary folder; it may fail part-way.
Untar(p) ==
    LET c == call[p]
    IN  /\ c.pc = "untar"
        /\ \/ call' = [call EXCEPT ![p] = [c EXCEPT !.pc = "replace", !.tmp = "tree"]]
           \/ call' = [call EXCEPT ![p] = [Fail(c, "ExtractError") EXCEPT !.tmp = "partial_tree"]]
        /\ UNCHANGED <<files, images, links, additional, cacheMeta, demos, prev, pre, ncalls, vin, vst, pipeVars, legacyVars, restVars>>

\* remove_path of the folder already at the final path, if any.
Replace(p) ==
    LET c == call[p]
    IN  /\ c.pc = "replace"
        /\ \/ /\ c.op = "get_cube_additional"
              /\ additional' = [additional EXCEPT ![c.cube] = Absent]
              /\ UNCHANGED demos
           \/ /\ c.op = "get_benchmark_demo_dataset"
              /\ demos' = [demos EXCEPT ![demo_dataset_folder(c.ret)] = Absent]
              /\ UNCHANGED additional
        /\ call' = [call EXCEPT ![p] = [c EXCEPT !.pc = "rename"]]
        /\ UNCHANGED <<files, images, links, cacheMeta, prev, pre, ncalls, vin, vst, pipeVars, legacyVars, restVars>>

\* os.rename of the temporary folder to the final path; it raises when a
\* folder is at the final path.
Rename(p) ==
    LET c == call[p]
    IN  /\ c.pc = "rename"
        /\ \/ /\ c.op = "get_cube_additional"
              /\ IF additional[c.cube] # Absent
                 THEN /\ call' = [call EXCEPT ![p] = Fail(c, "OSError")]
                      /\ UNCHANGED additional
                 ELSE /\ additional' = [additional EXCEPT ![c.cube] = c.tmpc]
                      /\ call' = [call EXCEPT ![p] = [c EXCEPT !.pc = "meta", !.tmp = "none",
                                                               !.tmpc = Absent]]
              /\ UNCHANGED demos
           \/ /\ c.op = "get_benchmark_demo_dataset"
              /\ IF demos[demo_dataset_folder(c.ret)] # Absent
                 THEN /\ call' = [call EXCEPT ![p] = Fail(c, "OSError")]
                      /\ UNCHANGED demos
                 ELSE /\ demos' = [demos EXCEPT ![demo_dataset_folder(c.ret)] = c.tmpc]
                      /\ call' = [call EXCEPT ![p] = [c EXCEPT !.pc = "done", !.tmp = "none",
                                                               !.tmpc = Absent, !.out = "demo"]]
              /\ UNCHANGED additional
        /\ UNCHANGED <<files, images, links, cacheMeta, prev, pre, ncalls, vin, vst, pipeVars, legacyVars, restVars>>

\* Meta as it would be if the side-car file were left unwritten.
MetaSkipped(p) ==
    LET c == call[p]
    IN  /\ c.pc = "meta"
        /\ call' = [call EXCEPT ![p] = [c EXCEPT !.pc = "done", !.out = "additional"]]
        /\ UNCHANGED <<files, images, links, additional, cacheMeta, demos, prev, pre, ncalls, vin, vst, pipeVars, legacyVars, restVars>>

\* get_cube_additional: write the tarball hash to the side-car file.
Meta(p) ==
    LET c == call[p]
    IN  /\ c.pc = "meta"
        /\ cacheMeta' = [cacheMeta EXCEPT ![c.cube] = c.ret]
        /\ call' = [call EXCEPT ![p] = [c EXCEPT !.pc = "done", !.out = "additional"]]
        /\ UNCHANGED <<files, images, links, additional, demos, prev, pre, ncalls, vin, vst, pipeVars, legacyVars, restVars>>

\* get_cube_image: os.symlink from the cube to the shared image; it raises
\* when a link is at the cube-local path.
Symlink(p) ==
    LET c == call[p]
    IN  /\ c.pc = "symlink"
        /\ IF links[c.cube] # NoHash
           THEN /\ call' = [call EXCEPT ![p] = Fail(c, "FileExistsError")]
                /\ UNCHANGED links
           ELSE /\ links' = [links EXCEPT ![c.cube] = img_storage(c.ret)]
                /\ call' = [call EXCEPT ![p] = [c EXCEPT !.pc = "done", !.out = "link"]]
        /\ UNCHANGED <<files, images, additional, cacheMeta, demos, prev, pre, ncalls, vin, vst, pipeVars, legacyVars, restVars>>

----------------------------------------------------------------------------
(* The cache specification: a fresh storage and a sequence of calls *)

\* The storage of a fresh installation, and no call made yet.
Fresh == [files |-> [path \in Cubes \X FileNames |-> Absent],
          images |-> [h \in Hashes |-> Absent],
          links |-> [cube \in Cubes |-> NoHash],
          additional |-> [cube \in Cubes |-> Absent],
          cacheMeta |-> [cube \in Cubes |-> NoHash],
          demos |-> [h \in Hashes |-> Absent]]

NewValidator == [pc |-> "validate_cubes", from_benchmark |-> FALSE,
                 from_prepared |-> FALSE, from_path |-> FALSE, from_demo |-> FALSE,
                 err |-> "none"]

\* The counters of the I/O one compatibility test has done.
NoIO == [fetched |-> 0, downloads |-> 0, symlinks |-> 0, preparations |-> 0,
         executions |-> 0, writes |-> 0]

NoResults == 0
NoReport == [demo_dataset_url |-> "", demo_dataset_hash |-> "", data_path |-> "",
             labels_path |-> "", prepared_data_hash |-> "",
             data_preparation_mlcube |-> "", model |-> "",
             data_evaluator_mlcube |-> ""]
NoSummary == [results |-> NoResults, partial |-> FALSE]

\* No compatibility test is in progress.
NoRun == [pc |-> "idle", no_cache |-> FALSE, data_source |-> "none",
          data_prep |-> "", model |-> "", evaluator |-> "",
          demo_dataset_url |-> "", demo_dataset_hash |-> "", data_uid |-> "",
          report |-> NoReport, results |-> NoResults, execution_summary |-> NoSummary,
          err |-> "none", stages |-> <<>>, io |-> NoIO, stored |-> {}]

\* What the caller keeps of a compatibility test that is over.
RunSummary(r) == [pc |-> r.pc, results |-> r.results, no_cache |-> r.no_cache,
                  data_uid |-> r.data_uid]

\* No result.
NoLegacyResult == [uid |-> "", data_prep |-> "", model |-> "", evaluator |-> "",
                   dataset |-> ""]

\* commands/compatibility_test.py: no test was made yet. args are the
\* arguments of run(); clock is the second time() last returned; linked are
\* the temporary uids with a link in the cubes storage.
NoLegacyArgs == [benchmark_uid |-> "", data_uid |-> "", data_prep |-> "", model |-> "",
                 evaluator |-> ""]

NoLegacy == [pc |-> "idle", args |-> NoLegacyArgs, benchmark_uid |-> "", data_uid |-> "",
             data_prep |-> "", model |-> "", evaluator |-> "", force_test |-> FALSE,
             benchmark |-> "", dataset |-> "", looked_up |-> "", result |-> NoLegacyResult,
             cached |-> FALSE, err |-> "none", executions |-> 0, n |-> 0, clock |-> 0,
             linked |-> {}]

\* commands/dataset/associate.py: no association was asked for yet. steps
\* are the checks passed by the call in progress, sent the association
\* requests that reached the server.
NoAssoc == [pc |-> "idle", data_uid |-> "", benchmark_uid |-> "", approved |-> FALSE,
            force_test |-> FALSE, prompted |-> FALSE, answer |-> FALSE, steps |-> <<>>,
            err |-> "none", n |-> 0, sent |-> <<>>]

\* commands/result/create.py: no execution was asked for yet. store is the
\* results storage, loaded what it held when the execution began; executed
\* and written are the positions of models_uids that were executed and whose
\* result was written.
NoExecResult == [benchmark |-> "", dataset |-> "", model |-> "", partial |-> FALSE,
                 origin |-> "none"]

NoBExec == [pc |-> "idle", benchmark_uid |-> "", data_uid |-> "", models_uids |-> <<>>,
            use_cache |-> FALSE, ignore_failed_experiments |-> FALSE,
            cached_results |-> {}, experiments |-> <<>>, returned |-> <<>>,
            executed |-> <<>>, written |-> <<>>, err |-> "none",
            store |-> {}, loaded |-> {}]

\* comms/auth/auth0.py: the credentials of a login at second 0 that nobody
\* has read yet. now is the clock; at, before, asked, res and refreshed_at
\* are what the call in progress read, found, did and received.
NoCredentials == [access_token |-> <<"access", 0>>, refresh_token |-> <<"refresh", 0>>,
                  expires_in |-> 0, issued_at |-> 0]

NoAuth == [pc |-> "idle", creds |-> NoCredentials, now |-> 0, at |-> 0,
           before |-> NoCredentials, asked |-> FALSE, sent |-> <<"refresh", 0>>,
           res |-> NoCredentials, refreshed_at |-> 0, returned |-> <<"access", 0>>,
           err |-> "none", n |-> 0, issued |-> 0]

\* server/benchmark: a server without benchmarks and without requests.
\* benchmarks and creates go by the number of the creation request; now is
\* the clock of timezone.now(); last is the update request served last.
NoBenchmark == [owner |-> "", state |-> "", approval_status |-> "", approved_at |-> 0,
                user_metadata |-> "", name |-> "", cubes_operational |-> FALSE]

NoData == [approval_status |-> "-", state |-> "-", user_metadata |-> "-", name |-> "-"]

NoCreate == [pc |-> "idle", owner |-> "", state |-> "", cubes_operational |-> FALSE]

NoServer == [benchmarks |-> <<>>, creates |-> <<>>, now |-> 0, n |-> 0,
             last |-> [data |-> NoData, before |-> NoBenchmark, outcome |-> "none"]]

\* The validator is not in use while the cache is exercised.
InitCache ==
    /\ files = Fresh.files
    /\ images = Fresh.images
    /\ links = Fresh.links
    /\ additional = Fresh.additional
    /\ cacheMeta = Fresh.cacheMeta
    /\ demos = Fresh.demos
    /\ call = [p \in Procs |-> IdleCall]
    /\ prev = Summary(IdleCall)
    /\ pre = Fresh
    /\ ncalls = 0
    /\ vin = [f \in InputNames |-> ""]
    /\ vst = [NewValidator EXCEPT !.pc = "idle"]
    /\ run = NoRun
    /\ reports = {}
    /\ past = RunSummary(NoRun)
    /\ nruns = 0
    /\ legacy = NoLegacy
    /\ legacyResults = {}
    /\ assoc = NoAssoc
    /\ server = NoServer
    /\ auth = NoAuth
    /\ bexec = NoBExec

NextCache ==
    \E p \in Procs :
        \/ Begin(p)
        \/ CheckCube(p)
        \/ CheckImage(p)
        \/ CheckAdditional(p)
        \/ CheckDemo(p)
        \/ Fetch(p)
        \/ Stream(p)
        \/ Verify(p)
        \/ Promote(p)
        \/ Move(p)
        \/ Untar(p)
        \/ Replace(p)
        \/ Rename(p)
        \/ Meta(p)
        \/ Symlink(p)

SpecCache == InitCache /\ [][NextCache]_vars

----------------------------------------------------------------------------
(* CompatibilityTestParamsValidator *)

\* Python truthiness of an argument.
Given(v) == v # ""

Ok == "ok"

\* __validate_cubes as it would be without the check of the evaluator.
validate_cubes_model_only(in) ==
    IF ~Given(in.model) /\ ~Given(in.benchmark_uid)
    THEN "A model mlcube or a benchmark should at least be specified"
    ELSE "ok"

\* __validate_cubes: the error it raises, or Ok.
validate_cubes(in) ==
    IF ~Given(in.model) /\ ~Given(in.benchmark_uid)
    THEN "A model mlcube or a benchmark should at least be specified"
    ELSE IF ~Given(in.evaluator) /\ ~Given(in.benchmark_uid)
    THEN "A metrics mlcube or a benchmark should at least be specified"
    ELSE Ok

RedundantDataSource == "Make sure you pass only one data source"

\* __validate_prepared_data_source
validate_prepared_data_source(in) ==
    IF Given(in.data_path) \/ Given(in.labels_path) \/ Given(in.demo_dataset_url)
       \/ Given(in.demo_dataset_hash)
    THEN RedundantDataSource
    ELSE IF Given(in.data_prep)
    THEN "A data preparation cube is not needed when specifying a prepared dataset"
    ELSE Ok

\* __validate_data_path_source as it would be without the check for a
\* second data source.
validate_data_path_source_unchecked(in) ==
    IF ~Given(in.labels_path)
    THEN "Labels path should be specified when providing data path"
    ELSE IF ~Given(in.data_prep) \/ ~Given(in.benchmark_uid)
    THEN "A data preparation cube should be passed when specifying raw data input"
    ELSE "ok"

\* __validate_data_path_source
validate_data_path_source(in) ==
    IF ~Given(in.labels_path)
    THEN "Labels path should be specified when providing data path"
    ELSE IF Given(in.demo_dataset_url) \/ Given(in.demo_dataset_hash) \/ Given(in.data_uid)
    THEN RedundantDataSource
    ELSE IF ~Given(in.data_prep) \/ ~Given(in.benchmark_uid)
    THEN "A data preparation cube should be passed when specifying raw data input"
    ELSE Ok

\* __validate_demo_data_source
validate_demo_data_source(in) ==
    IF Given(in.data_path) \/ Given(in.labels_path) \/ Given(in.data_uid)
    THEN RedundantDataSource
    ELSE IF ~Given(in.data_prep) \/ ~Given(in.benchmark_uid)
    THEN "A data preparation cube should be passed when specifying raw data input"
    ELSE Ok

\* __validate_data_source: the branch it selects and the error it raises, or Ok.
validate_data_source(in) ==
    IF ~(Given(in.data_path) \/ Given(in.demo_dataset_url) \/ Given(in.data_uid))
    THEN IF ~Given(in.benchmark_uid)
         THEN [branch |-> "none", err |-> "A data source should at least be specified"]
         ELSE [branch |-> "from_benchmark", err |-> Ok]
    ELSE IF Given(in.data_uid)
    THEN [branch |-> "from_prepared", err |-> validate_prepared_data_source(in)]
    ELSE IF Given(in.data_path)
    THEN [branch |-> "from_path", err |-> validate_data_path_source(in)]
    ELSE [branch |-> "from_demo", err |-> validate_demo_data_source(in)]

\* __validate_redundant_benchmark as it would be if a preparation cube did
\* not count as an override.
validate_redundant_benchmark_prepared_only(in, st) ==
    IF Given(in.benchmark_uid)
       /\ ~st.from_benchmark /\ Given(in.model) /\ Given(in.evaluator)
       /\ st.from_prepared
    THEN "The provided benchmark will not be used"
    ELSE "ok"

\* __validate_redundant_benchmark
validate_redundant_benchmark(in, st) ==
    IF Given(in.benchmark_uid)
       /\ ~st.from_benchmark /\ Given(in.model) /\ Given(in.evaluator)
       /\ (st.from_prepared \/ Given(in.data_prep))
    THEN "The provided benchmark will not be used"
    ELSE Ok

Raise(st, msg) == [st EXCEPT !.pc = "raised", !.err = msg]

\* validate(): the call of __validate_cubes.
ValidateCubes ==
    /\ vst.pc = "validate_cubes"
    /\ LET r == validate_cubes(vin)
       IN  vst' = IF r = Ok THEN [vst EXCEPT !.pc = "validate_data_source"]
                  ELSE Raise(vst, r)
    /\ UNCHANGED <<vin, files, images, links, additional, cacheMeta, demos, call, prev, pre, ncalls, pipeVars, legacyVars, restVars>>

\* validate(): the call of __validate_data_source; the branch flag is set
\* only when the branch's own validation does not raise.
ValidateDataSource ==
    /\ vst.pc = "validate_data_source"
    /\ LET r == validate_data_source(vin)
       IN  vst' = IF r.err = Ok
                  THEN [vst EXCEPT !.pc = "validate_redundant_benchmark",
                                   !.from_benchmark = (r.branch = "from_benchmark"),
                                   !.from_prepared = (r.branch = "from_prepared"),
                                   !.from_path = (r.branch = "from_path"),
                                   !.from_demo = (r.branch = "from_demo")]
                  ELSE Raise(vst, r.err)
    /\ UNCHANGED <<vin, files, images, links, additional, cacheMeta, demos, call, prev, pre, ncalls, pipeVars, legacyVars, restVars>>

\* validate(): the call of __validate_redundant_benchmark, then the return.
ValidateRedundantBenchmark ==
    /\ vst.pc = "validate_redundant_benchmark"
    /\ LET r == validate_redundant_benchmark(vin, vst)
       IN  vst' = IF r = Ok THEN [vst EXCEPT !.pc = "done"] ELSE Raise(vst, r)
    /\ UNCHANGED <<vin, files, images, links, additional, cacheMeta, demos, call, prev, pre, ncalls, pipeVars, legacyVars, restVars>>

\* A validator constructed from any combination of arguments; the cache is
\* not touched by validation.
InitVal ==
    /\ vin \in [InputNames -> InputValues]
    /\ vst = NewValidator
    /\ files = Fresh.files
    /\ images = Fresh.images
    /\ links = Fresh.links
    /\ additional = Fresh.additional
    /\ cacheMeta = Fresh.cacheMeta
    /\ demos = Fresh.demos
    /\ call = [p \in Procs |-> IdleCall]
    /\ prev = Summary(IdleCall)
    /\ pre = Fresh
    /\ ncalls = 0
    /\ run = NoRun
    /\ reports = {}
    /\ past = RunSummary(NoRun)
    /\ nruns = 0
    /\ legacy = NoLegacy
    /\ legacyResults = {}
    /\ assoc = NoAssoc
    /\ server = NoServer
    /\ auth = NoAuth
    /\ bexec = NoBExec

NextVal ==
    \/ ValidateCubes
    \/ ValidateDataSource
    \/ ValidateRedundantBenchmark

SpecVal == InitVal /\ [][NextVal]_vars

----------------------------------------------------------------------------
(* Claims about the resource cache, checked under SpecCache *)

cur == call[1]
SameCall == prev.op = cur.op /\ prev.url = cur.url /\ prev.cube = cur.cube
CubePath(c) == <<c.cube, FileName(c.op)>>
IsCubeOp(c) == c.op \in {"get_cube", "get_cube_params"}

\* Every permanent path is absent or holds one whole content.
StorageComplete ==
    /\ \A path \in Cubes \X FileNames : files[path] \in Contents \cup {Absent}
    /\ \A h \in Hashes : images[h] \in Contents \cup {Absent}
    /\ \A h \in Hashes : demos[h] \in Contents \cup {Absent}
    /\ \A cube \in Cubes : additional[cube] \in Contents \cup {Absent}

\* An object of the shared storages has the hash it is named by.
HashNamed ==
    /\ \A h \in Hashes : images[h] # Absent => get_file_hash(images[h]) = h
    /\ \A h \in Hashes : demos[h] # Absent => get_file_hash(demos[h]) = h

\* Between calls, an existing additional-files folder has the hash the
\* side-car file records.
SideCarGoverns ==
    Finished(cur) =>
        \A cube \in Cubes : additional[cube] # Absent =>
            get_file_hash(additional[cube]) = cacheMeta[cube]

\* A call that returns leaves at its final path an object with the expected
\* hash (when one was supplied) and returns the hash of that object.
ReturnedHashGoverns ==
    cur.pc = "done" =>
        /\ cur.hash # NoHash => cur.ret = cur.hash
        /\ IsCubeOp(cur) => get_file_hash(files[CubePath(cur)]) = cur.ret
        /\ cur.op = "get_cube_image" => /\ images[cur.ret] # Absent
                                        /\ links[cur.cube] = cur.ret
        /\ cur.op = "get_cube_additional" =>
               get_file_hash(additional[cur.cube]) = cur.ret
        /\ cur.op = "get_benchmark_demo_dataset" => demos[cur.ret] # Absent

C2_SecondCallNoDownload ==
    (prev.pc = "done" /\ SameCall /\ prev.hash = cur.hash) => cur.dl = 0

\* The object a call of get_cube_image / get_benchmark_demo_dataset would
\* find under its expected hash existed when the call began.
SharedObjectExisted ==
    /\ cur.hash # NoHash
    /\ \/ cur.op = "get_cube_image" /\ pre.images[cur.hash] # Absent
       \/ cur.op = "get_benchmark_demo_dataset" /\ pre.demos[cur.hash] # Absent

\* C3: when an expected hash is supplied to get_cube_image or
\* get_benchmark_demo_dataset and the shared object of that name exists, the
\* call downloads nothing and does not fail, whatever the url, and returns the
\* supplied hash with the location of that object (for an image, the cube's
\* link to it).
C3_ExistingObjectNoDownload ==
    SharedObjectExisted =>
        /\ cur.dl = 0
        /\ cur.pc \notin {"fetch", "stream", "failed"}
        /\ cur.pc = "done" =>
              /\ cur.ret = cur.hash
              /\ cur.op = "get_cube_image" =>
                    /\ cur.out = "link"
                    /\ links[cur.cube] = cur.hash
                    /\ images[cur.hash] = pre.images[cur.hash]
              /\ cur.op = "get_benchmark_demo_dataset" =>
                    /\ cur.out = "demo"
                    /\ demos[cur.hash] = pre.demos[cur.hash]

\* get_cube_image returned for an existing image although its url is a
\* descriptor no source recognises.
C3_Witness ==
    /\ SharedObjectExisted
    /\ cur.op = "get_cube_image"
    /\ cur.pc = "done"
    /\ ~Recognised(cur.url)

\* The call downloaded content and failed on its hash.
MismatchAfterDownload ==
    cur.pc = "failed" /\ cur.err = "IntegrityError" /\ cur.dl > 0

\* C4 as stated: after a download whose hash differs from the expected hash
\* the call has failed with an integrity error and no object exists at the
\* final path.
C4_NoObjectAfterMismatch ==
    MismatchAfterDownload =>
        /\ IsCubeOp(cur) => files[CubePath(cur)] = Absent
        /\ cur.op = "get_cube_image" => images[cur.hash] = Absent
        /\ cur.op = "get_cube_additional" => additional[cur.cube] = Absent
        /\ cur.op = "get_benchmark_demo_dataset" => demos[cur.hash] = Absent

\* C4 amended: after a download whose hash differs from the expected hash the
\* call has failed with an integrity error and the downloaded file was not
\* promoted: the final path is absent, except that get_cube_additional leaves
\* the folder and the side-car file as they were before the call.
C4_NotPromotedAfterMismatch ==
    /\ (cur.pc = "promote" /\ cur.hash # NoHash) => get_file_hash(cur.tmpc) = cur.hash
    /\ MismatchAfterDownload =>
        /\ cur.tmp = "file"
        /\ IsCubeOp(cur) => files[CubePath(cur)] = Absent
        /\ cur.op = "get_cube_image" => /\ images[cur.hash] = Absent
                                        /\ links[cur.cube] = NoHash
        /\ cur.op = "get_cube_additional" =>
              /\ additional[cur.cube] = pre.additional[cur.cube]
              /\ cacheMeta[cur.cube] = pre.cacheMeta[cur.cube]
        /\ cur.op = "get_benchmark_demo_dataset" => demos[cur.hash] = Absent

\* get_cube_additional failed on the hash of its download while an earlier
\* folder is in place.
C4_Witness ==
    /\ MismatchAfterDownload
    /\ cur.op = "get_cube_additional"
    /\ additional[cur.cube] # Absent

\* The previous call had no expected hash and returned; this call repeats it
\* with the returned hash as the expected hash.
RoundTrip ==
    /\ prev.pc = "done" /\ prev.hash = NoHash
    /\ SameCall
    /\ cur.hash = prev.ret

\* C5: a call without an expected hash returns the hash of the content it
\* downloaded, and the same call repeated with that hash as the expected hash
\* downloads nothing, does not fail and returns the same hash.
C5_NoHashRoundTrip ==
    /\ (cur.pc = "done" /\ cur.hash = NoHash) =>
           /\ cur.dl = 1
           /\ cur.ret = get_file_hash(Remote(cur.url))
    /\ RoundTrip =>
           /\ cur.dl = 0
           /\ cur.pc # "failed"
           /\ cur.pc = "done" => cur.ret = prev.ret

\* The repeated call of get_cube_additional returned.
C5_Witness ==
    /\ RoundTrip
    /\ cur.op = "get_cube_additional"
    /\ cur.pc = "done"

\* An expected hash, when supplied, is the hash of the descriptor's content.
HashOfDescriptor(c) == c.hash \in {NoHash, get_file_hash(Remote(c.url))}

\* Two returned calls of the same shared-storage operation with different
\* descriptors of the same content.
TwoDescriptorsOneContent ==
    /\ prev.pc = "done" /\ cur.pc = "done"
    /\ prev.op = cur.op
    /\ Recognised(prev.url) /\ Recognised(cur.url)
    /\ prev.url # cur.url
    /\ Remote(prev.url) = Remote(cur.url)
    /\ HashOfDescriptor(prev) /\ HashOfDescriptor(cur)

Stored(storage, content) == {h \in Hashes : storage[h] = content}

\* C6: the shared images storage and the shared demo storage never hold two
\* objects of the same content, and after two calls with different
\* descriptors of the same content the storage holds exactly one object of
\* that content, named by its hash, with or without expected hashes.
C6_OneObjectPerContent ==
    /\ \A c \in Contents : /\ Cardinality(Stored(images, c)) <= 1
                           /\ Cardinality(Stored(demos, c)) <= 1
    /\ (TwoDescriptorsOneContent /\ cur.op = "get_cube_image") =>
           Stored(images, Remote(cur.url)) = {get_file_hash(Remote(cur.url))}
    /\ (TwoDescriptorsOneContent /\ cur.op = "get_benchmark_demo_dataset") =>
           Stored(demos, Remote(cur.url)) = {get_file_hash(Remote(cur.url))}

\* Two descriptors of the same image were fetched, the first without an
\* expected hash and the second with one.
C6_Witness ==
    /\ TwoDescriptorsOneContent
    /\ cur.op = "get_cube_image"
    /\ prev.hash = NoHash
    /\ cur.hash # NoHash

----------------------------------------------------------------------------
(* Claims about CompatibilityTestParamsValidator, checked under SpecVal *)

Returned == vst.pc = "done"
RaisedInvalidArgument == vst.pc = "raised" /\ vst.err # "none"
ValidateOver == vst.pc \in {"done", "raised"}

SuppliedSources(in) ==
    {f \in {"data_uid", "data_path", "demo_dataset_url"} : Given(in[f])}

\* C7: whenever at least two of data_uid, data_path and demo_dataset_url are
\* supplied together, validate raises InvalidArgumentError, whatever the
\* benchmark and the cubes are.
C7_TwoSourcesRaise ==
    (ValidateOver /\ Cardinality(SuppliedSources(vin)) >= 2) => RaisedInvalidArgument

\* Two data sources were supplied with a benchmark, and the data-source
\* validation raised the redundant-data-source error.
C7_Witness ==
    /\ Cardinality(SuppliedSources(vin)) >= 2
    /\ Given(vin.benchmark_uid)
    /\ vst.pc = "raised"
    /\ vst.err = RedundantDataSource

CubesAvailable(in) ==
    /\ Given(in.model) \/ Given(in.benchmark_uid)
    /\ Given(in.evaluator) \/ Given(in.benchmark_uid)

PreparationAvailable(in) == Given(in.data_prep) \/ Given(in.benchmark_uid)

FullyOverridden(in) ==
    /\ Given(in.benchmark_uid) /\ Given(in.model) /\ Given(in.evaluator)
    /\ Given(in.data_uid) \/ Given(in.data_prep)

OnlyPrepared(in) ==
    /\ Given(in.data_uid) /\ ~Given(in.data_prep)
    /\ ~Given(in.data_path) /\ ~Given(in.labels_path)
    /\ ~Given(in.demo_dataset_url) /\ ~Given(in.demo_dataset_hash)

OnlyPath(in) ==
    /\ Given(in.data_path) /\ Given(in.labels_path)
    /\ ~Given(in.data_uid)
    /\ ~Given(in.demo_dataset_url) /\ ~Given(in.demo_dataset_hash)
    /\ PreparationAvailable(in)

OnlyDemo(in) ==
    /\ Given(in.demo_dataset_url)
    /\ ~Given(in.data_uid) /\ ~Given(in.data_path) /\ ~Given(in.labels_path)
    /\ PreparationAvailable(in)

OnlyBenchmark(in) ==
    /\ Given(in.benchmark_uid)
    /\ ~Given(in.data_uid) /\ ~Given(in.data_path) /\ ~Given(in.labels_path)
    /\ ~Given(in.demo_dataset_url) /\ ~Given(in.demo_dataset_hash)

ExactlyOneBranch(in) ==
    /\ CubesAvailable(in)
    /\ ~FullyOverridden(in)
    /\ OnlyPrepared(in) \/ OnlyPath(in) \/ OnlyDemo(in) \/ OnlyBenchmark(in)

\* C8: validate does not raise for an input combination that satisfies
\* exactly one data-source branch, with the model and the evaluator available
\* directly or through a benchmark, the benchmark not fully overridden and,
\* for the raw-path and demo branches, a preparation cube available directly
\* or through a benchmark.
C8_OneBranchAccepted ==
    ExactlyOneBranch(vin) => vst.pc # "raised"

\* C9: validate accepts an input combination only if every data-source input
\* outside the selected branch is empty.
C9_NoStrayInputs ==
    Returned =>
        /\ vst.from_benchmark =>
              /\ ~Given(vin.data_path) /\ ~Given(vin.labels_path)
              /\ ~Given(vin.demo_dataset_url) /\ ~Given(vin.demo_dataset_hash)
              /\ ~Given(vin.data_uid)
        /\ vst.from_prepared =>
              /\ ~Given(vin.data_path) /\ ~Given(vin.labels_path)
              /\ ~Given(vin.demo_dataset_url) /\ ~Given(vin.demo_dataset_hash)
        /\ vst.from_path =>
              /\ ~Given(vin.demo_dataset_url) /\ ~Given(vin.demo_dataset_hash)
              /\ ~Given(vin.data_uid)
        /\ vst.from_demo =>
              /\ ~Given(vin.data_path) /\ ~Given(vin.labels_path)
              /\ ~Given(vin.data_uid)

NoDataSourceInput(in) ==
    /\ ~Given(in.data_uid) /\ ~Given(in.data_path) /\ ~Given(in.labels_path)
    /\ ~Given(in.demo_dataset_url) /\ ~Given(in.demo_dataset_hash)

\* C10 as stated, at the choice of the other data-source inputs that leaves
\* them all empty: with a benchmark, a model, an evaluator and a preparation
\* cube, validate raises.
C10_FullOverrideRaises ==
    (ValidateOver /\ FullyOverridden(vin) /\ NoDataSourceInput(vin)) =>
        RaisedInvalidArgument

\* C10 amended: with a benchmark, a model, an evaluator and either a prepared
\* dataset or a preparation cube, validate raises whenever a data source
\* (data_uid, data_path or demo_dataset_url) is also supplied, and the error
\* is the benchmark-unused one when the data-source validation passes.
C10_FullOverrideWithSourceRaises ==
    (ValidateOver /\ FullyOverridden(vin) /\ SuppliedSources(vin) # {}) =>
        /\ RaisedInvalidArgument
        /\ (vst.from_prepared \/ vst.from_path \/ vst.from_demo) =>
               vst.err = "The provided benchmark will not be used"

\* A raw data path with its labels, a preparation cube, a model and an
\* evaluator were supplied with a benchmark, and the benchmark was refused as
\* unused.
C10_Witness ==
    /\ FullyOverridden(vin)
    /\ Given(vin.data_path)
    /\ vst.from_path
    /\ vst.pc = "raised"
    /\ vst.err = "The provided benchmark will not be used"

MissingCubeErrors ==
    {"A model mlcube or a benchmark should at least be specified",
     "A metrics mlcube or a benchmark should at least be specified"}

\* C11: validate raises InvalidArgumentError whenever no benchmark is given
\* and the model or the evaluator is missing, and with a benchmark it never
\* raises the error of a missing model or evaluator.
C11_CubesOrBenchmark ==
    /\ (ValidateOver /\ ~Given(vin.benchmark_uid)
        /\ (~Given(vin.model) \/ ~Given(vin.evaluator))) =>
           (RaisedInvalidArgument /\ vst.err \in MissingCubeErrors)
    /\ Given(vin.benchmark_uid) => vst.err \notin MissingCubeErrors
    /\ (Given(vin.benchmark_uid) /\ NoDataSourceInput(vin)
        /\ ~Given(vin.data_prep) /\ ValidateOver) => Returned

\* validate raised for a missing evaluator with a model and no benchmark.
C11_Witness ==
    /\ ~Given(vin.benchmark_uid) /\ Given(vin.model) /\ ~Given(vin.evaluator)
    /\ vst.pc = "raised"
    /\ vst.err = "A metrics mlcube or a benchmark should at least be specified"

----------------------------------------------------------------------------
(* CompatibilityTestExecution.run: the stages of one compatibility test *)

\* A cube argument is empty, a registered uid or a local path.
CubeArgs == {"", "7", "./cube"}
CubeInputs == {"data_prep", "model", "evaluator"}
RunInputs == {in \in [InputNames -> InputValues \cup CubeArgs] :
                 /\ \A f \in CubeInputs : in[f] \in CubeArgs
                 /\ \A f \in InputNames \ CubeInputs : in[f] \in InputValues}

\* The record of the benchmark on the server.
TheBenchmark == [data_preparation_mlcube |-> "P1", reference_model_mlcube |-> "M1",
                 data_evaluator_mlcube |-> "E1", demo_dataset_tarball_url |-> "U",
                 demo_dataset_tarball_hash |-> "H"]

\* The descriptor a demo dataset url stands for, and the hash a hash
\* argument stands for; the caller's hash is the hash of the caller's tarball.
DescriptorOf(url) == IF url = "U" THEN 1 ELSE 2
HashOf(hash) == IF hash = "" THEN NoHash
                ELSE IF hash = "H" THEN get_file_hash(Remote(1))
                ELSE get_file_hash(Remote(2))

\* Python's `a or b` on two arguments.
Either(a, b) == IF Given(a) THEN a ELSE b

Results == 1..NumResults

StageOrder == <<"validate", "set_data_source", "process_benchmark", "prepare_cubes",
                "prepare_dataset", "initialize_report", "cached_results", "execute",
                "write">>

RunOver(r) == r.pc \in {"idle", "returned", "raised"}

\* A stage returns and the next statement of run() is reached.
Advance(r, stage, next) == [r EXCEPT !.pc = next, !.stages = Append(@, stage)]

\* A stage raises: nothing of run() catches it.
RaiseIn(r, stage, error) ==
    [r EXCEPT !.pc = "raised", !.err = error, !.stages = Append(@, stage)]

\* validate(): the three checks in their order, the first error ends it.
validate(in, st) ==
    LET c == validate_cubes(in)
        d == validate_data_source(in)
        flagged == [st EXCEPT !.from_benchmark = (d.branch = "from_benchmark"),
                              !.from_prepared = (d.branch = "from_prepared"),
                              !.from_path = (d.branch = "from_path"),
                              !.from_demo = (d.branch = "from_demo")]
        b == validate_redundant_benchmark(in, flagged)
    IN  IF c # Ok THEN Raise(st, c)
        ELSE IF d.err # Ok THEN Raise(st, d.err)
        ELSE IF b # Ok THEN Raise(flagged, b)
        ELSE [flagged EXCEPT !.pc = "done"]

\* The data source the validator settled on.
get_data_source(st) ==
    IF st.from_prepared THEN "prepared"
    ELSE IF st.from_path THEN "path"
    ELSE IF st.from_demo THEN "demo"
    ELSE "benchmark"

\* A local path is promoted to a temporary uid of this invocation; a
\* registered uid is kept.
is_path(ref) == ref = "./cube"
prepare_cube(ref, invocation) ==
    IF is_path(ref) THEN "test_" \o ToString(invocation) ELSE ref

\* The uid of the dataset prepared from raw data.
create_test_dataset(raw) == "ds_" \o raw

\* The key under which a report is persisted.
generated_uid(report) == "m" \o report.model \o "d" \o report.prepared_data_hash

\* TestReport.get: the persisted reports with this uid (none: it raises
\* InvalidArgumentError).
TestReport_get(store, uid) == {r \in store : generated_uid(r.report) = uid}

Count(r, what, n) == [r EXCEPT !.io[what] = @ + n]

cacheVars == <<files, images, links, additional, cacheMeta, call, prev, pre, ncalls>>

\* run(): the constructor, on the arguments of this session and either
\* setting of no_cache.
RunStart ==
    /\ RunOver(run)
    /\ nruns < MaxRuns
    /\ nruns' = nruns + 1
    /\ past' = RunSummary(run)
    /\ \E no_cache \in BOOLEAN :
          run' = [NoRun EXCEPT !.pc = "validate", !.no_cache = no_cache,
                               !.data_prep = vin.data_prep, !.model = vin.model,
                               !.evaluator = vin.evaluator,
                               !.demo_dataset_url = vin.demo_dataset_url,
                               !.demo_dataset_hash = vin.demo_dataset_hash,
                               !.data_uid = vin.data_uid, !.stored = reports]
    /\ vst' = NewValidator
    /\ UNCHANGED <<vin, reports, demos, cacheVars, legacyVars, restVars>>

\* StageValidate as it would be if the benchmark were fetched before the
\* arguments are validated.
StageValidateAfterFetch ==
    /\ run.pc = "validate"
    /\ vst' = validate(vin, vst)
    /\ LET r == IF Given(vin.benchmark_uid) THEN Count(run, "fetched", 1) ELSE run
       IN  run' = IF vst'.pc = "raised"
                  THEN RaiseIn(r, "validate", "InvalidArgumentError")
                  ELSE Advance(r, "validate", "set_data_source")
    /\ UNCHANGED <<vin, reports, past, nruns, demos, cacheVars, legacyVars, restVars>>

\* validate()
StageValidate ==
    /\ run.pc = "validate"
    /\ vst' = validate(vin, vst)
    /\ run' = IF vst'.pc = "raised"
              THEN RaiseIn(run, "validate", "InvalidArgumentError")
              ELSE Advance(run, "validate", "set_data_source")
    /\ UNCHANGED <<vin, reports, past, nruns, demos, cacheVars, legacyVars, restVars>>

\* set_data_source()
StageSetDataSource ==
    /\ run.pc = "set_data_source"
    /\ run' = [Advance(run, "set_data_source", "process_benchmark")
                  EXCEPT !.data_source = get_data_source(vst)]
    /\ UNCHANGED <<vin, vst, reports, past, nruns, demos, cacheVars, legacyVars, restVars>>

\* StageProcessBenchmark as it would be if the cubes of the benchmark
\* replaced those of the caller.
StageProcessBenchmarkOverwriting ==
    /\ run.pc = "process_benchmark"
    /\ \/ /\ ~Given(vin.benchmark_uid)
          /\ run' = Advance(run, "process_benchmark", "prepare_cubes")
       \/ /\ Given(vin.benchmark_uid)
          /\ run' = Count(RaiseIn(run, "process_benchmark", "CommunicationError"),
                          "fetched", 1)
       \/ /\ Given(vin.benchmark_uid)
          /\ LET b == TheBenchmark
                 r == Count(Advance(run, "process_benchmark", "prepare_cubes"),
                            "fetched", 1)
             IN  run' = [r EXCEPT
                    !.data_prep = IF run.data_source # "prepared"
                                  THEN Either(run.data_prep, b.data_preparation_mlcube)
                                  ELSE run.data_prep,
                    !.model = b.reference_model_mlcube,
                    !.evaluator = b.data_evaluator_mlcube,
                    !.demo_dataset_url = IF run.data_source = "benchmark"
                                         THEN b.demo_dataset_tarball_url
                                         ELSE run.demo_dataset_url,
                    !.demo_dataset_hash = IF run.data_source = "benchmark"
                                          THEN b.demo_dataset_tarball_hash
                                          ELSE run.demo_dataset_hash]
    /\ UNCHANGED <<vin, vst, reports, past, nruns, demos, cacheVars, legacyVars, restVars>>

\* process_benchmark(): nothing without a benchmark; otherwise the record
\* is fetched, which may fail, and fills what the caller left empty.
StageProcessBenchmark ==
    /\ run.pc = "process_benchmark"
    /\ \/ /\ ~Given(vin.benchmark_uid)
          /\ run' = Advance(run, "process_benchmark", "prepare_cubes")
       \/ /\ Given(vin.benchmark_uid)
          /\ run' = Count(RaiseIn(run, "process_benchmark", "CommunicationError"),
                          "fetched", 1)
       \/ /\ Given(vin.benchmark_uid)
          /\ LET b == TheBenchmark
                 r == Count(Advance(run, "process_benchmark", "prepare_cubes"),
                            "fetched", 1)
             IN  run' = [r EXCEPT
                    !.data_prep = IF run.data_source # "prepared"
                                  THEN Either(run.data_prep, b.data_preparation_mlcube)
                                  ELSE run.data_prep,
                    !.model = Either(run.model, b.reference_model_mlcube),
                    !.evaluator = Either(run.evaluator, b.data_evaluator_mlcube),
                    !.demo_dataset_url = IF run.data_source = "benchmark"
                                         THEN b.demo_dataset_tarball_url
                                         ELSE run.demo_dataset_url,
                    !.demo_dataset_hash = IF run.data_source = "benchmark"
                                          THEN b.demo_dataset_tarball_hash
                                          ELSE run.demo_dataset_hash]
    /\ UNCHANGED <<vin, vst, reports, past, nruns, demos, cacheVars, legacyVars, restVars>>

\* The local paths among the cubes that prepare_cubes establishes.
PathCubes(r) ==
    (IF r.data_source # "prepared" /\ is_path(r.data_prep) THEN {"data_prep"} ELSE {})
    \cup (IF is_path(r.model) THEN {"model"} ELSE {})
    \cup (IF is_path(r.evaluator) THEN {"evaluator"} ELSE {})

\* prepare_cubes(): local paths are linked under temporary uids, then the
\* model and the evaluator are fetched, which may fail.
StagePrepareCubes ==
    /\ run.pc = "prepare_cubes"
    /\ LET linked == Count(run, "symlinks", Cardinality(PathCubes(run)))
           r == [linked EXCEPT
                    !.data_prep = IF run.data_source # "prepared"
                                  THEN prepare_cube(run.data_prep, nruns)
                                  ELSE run.data_prep,
                    !.model = prepare_cube(run.model, nruns),
                    !.evaluator = prepare_cube(run.evaluator, nruns)]
       IN  \/ run' = Count(Advance(r, "prepare_cubes", "prepare_dataset"), "fetched", 2)
           \/ run' = Count(RaiseIn(r, "prepare_cubes", "InvalidEntityError"), "fetched", 1)
    /\ UNCHANGED <<vin, vst, reports, past, nruns, demos, cacheVars, legacyVars, restVars>>

\* The dataset got ready: its uid is set and its record is read.
DatasetReady(r, uid) ==
    Count([Advance(r, "prepare_dataset", "initialize_report") EXCEPT !.data_uid = uid],
          "fetched", 1)

\* StagePrepareDataset as it would be if a prepared dataset were prepared
\* once more.
StagePrepareDatasetAlwaysPreparing ==
    /\ run.pc = "prepare_dataset"
    /\ LET expected == HashOf(run.demo_dataset_hash)
           hit == expected # NoHash /\ demos[demo_dataset_folder(expected)] # Absent
           content == Remote(DescriptorOf(run.demo_dataset_url))
           calculated == verify_or_get_hash(content, expected)
           prepared == Count(run, "preparations", 1)
       IN  \/ /\ run.data_source = "prepared"
              /\ \/ run' = DatasetReady(prepared, create_test_dataset("path"))
                 \/ run' = Count(RaiseIn(run, "prepare_dataset", "InvalidArgumentError"),
                                 "fetched", 1)
              /\ UNCHANGED demos
           \/ /\ run.data_source = "path"
              /\ \/ run' = DatasetReady(prepared, create_test_dataset("path"))
                 \/ run' = RaiseIn(prepared, "prepare_dataset", "ExecutionError")
              /\ UNCHANGED demos
           \/ /\ run.data_source \in {"demo", "benchmark"}
              /\ hit
              /\ \/ run' = DatasetReady(prepared,
                               create_test_dataset(ToString(demos[demo_dataset_folder(expected)])))
                 \/ run' = RaiseIn(prepared, "prepare_dataset", "ExecutionError")
              /\ UNCHANGED demos
           \/ /\ run.data_source \in {"demo", "benchmark"}
              /\ ~hit
              /\ run' = Count(RaiseIn(run, "prepare_dataset", "RetrievalError"),
                              "downloads", 1)
              /\ UNCHANGED demos
           \/ /\ run.data_source \in {"demo", "benchmark"}
              /\ ~hit
              /\ calculated = Raised
              /\ run' = Count(RaiseIn(run, "prepare_dataset", "IntegrityError"),
                              "downloads", 1)
              /\ UNCHANGED demos
           \/ /\ run.data_source \in {"demo", "benchmark"}
              /\ ~hit
              /\ calculated # Raised
              /\ demos' = [demos EXCEPT ![demo_dataset_folder(calculated)] = content]
              /\ \/ run' = DatasetReady(Count(prepared, "downloads", 1),
                                        create_test_dataset(ToString(content)))
                 \/ run' = RaiseIn(Count(prepared, "downloads", 1), "prepare_dataset",
                                   "ExecutionError")
    /\ UNCHANGED <<vin, vst, reports, past, nruns, cacheVars, legacyVars, restVars>>

\* prepare_dataset(): a prepared dataset is only read; raw data at a path is
\* prepared; a demo dataset is first obtained from get_benchmark_demo_dataset,
\* which returns the hash-named folder when it exists and downloads otherwise.
StagePrepareDataset ==
    /\ run.pc = "prepare_dataset"
    /\ LET expected == HashOf(run.demo_dataset_hash)
           hit == expected # NoHash /\ demos[demo_dataset_folder(expected)] # Absent
           content == Remote(DescriptorOf(run.demo_dataset_url))
           calculated == verify_or_get_hash(content, expected)
           prepared == Count(run, "preparations", 1)
       IN  \/ /\ run.data_source = "prepared"
              /\ \/ run' = DatasetReady(run, run.data_uid)
                 \/ run' = Count(RaiseIn(run, "prepare_dataset", "InvalidArgumentError"),
                                 "fetched", 1)
              /\ UNCHANGED demos
           \/ /\ run.data_source = "path"
              /\ \/ run' = DatasetReady(prepared, create_test_dataset("path"))
                 \/ run' = RaiseIn(prepared, "prepare_dataset", "ExecutionError")
              /\ UNCHANGED demos
           \/ /\ run.data_source \in {"demo", "benchmark"}
              /\ hit
              /\ \/ run' = DatasetReady(prepared,
                               create_test_dataset(ToString(demos[demo_dataset_folder(expected)])))
                 \/ run' = RaiseIn(prepared, "prepare_dataset", "ExecutionError")
              /\ UNCHANGED demos
           \/ /\ run.data_source \in {"demo", "benchmark"}
              /\ ~hit
              /\ run' = Count(RaiseIn(run, "prepare_dataset", "RetrievalError"),
                              "downloads", 1)
              /\ UNCHANGED demos
           \/ /\ run.data_source \in {"demo", "benchmark"}
              /\ ~hit
              /\ calculated = Raised
              /\ run' = Count(RaiseIn(run, "prepare_dataset", "IntegrityError"),
                              "downloads", 1)
              /\ UNCHANGED demos
           \/ /\ run.data_source \in {"demo", "benchmark"}
              /\ ~hit
              /\ calculated # Raised
              /\ demos' = [demos EXCEPT ![demo_dataset_folder(calculated)] = content]
              /\ \/ run' = DatasetReady(Count(prepared, "downloads", 1),
                                        create_test_dataset(ToString(content)))
                 \/ run' = RaiseIn(Count(prepared, "downloads", 1), "prepare_dataset",
                                   "ExecutionError")
    /\ UNCHANGED <<vin, vst, reports, past, nruns, cacheVars, legacyVars, restVars>>

\* initialize_report()
StageInitializeReport ==
    /\ run.pc = "initialize_report"
    /\ run' = [Advance(run, "initialize_report", "cached_results") EXCEPT
                 !.report = [demo_dataset_url |-> run.demo_dataset_url,
                             demo_dataset_hash |-> run.demo_dataset_hash,
                             data_path |-> vin.data_path,
                             labels_path |-> vin.labels_path,
                             prepared_data_hash |-> run.data_uid,
                             data_preparation_mlcube |-> run.data_prep,
                             model |-> run.model,
                             data_evaluator_mlcube |-> run.evaluator]]
    /\ UNCHANGED <<vin, vst, reports, past, nruns, demos, cacheVars, legacyVars, restVars>>

\* StageCachedResults as it would be if no_cache were not looked at.
StageCachedResultsIgnoringNoCache ==
    /\ run.pc = "cached_results"
    /\ LET found == TestReport_get(reports, generated_uid(run.report))
       IN  IF found = {}
           THEN run' = Advance(run, "cached_results", "execute")
           ELSE \E report \in found :
                   run' = [Advance(run, "cached_results", "returned")
                              EXCEPT !.results = report.results]
    /\ UNCHANGED <<vin, vst, reports, past, nruns, demos, cacheVars, legacyVars, restVars>>

\* cached_results() and the test `results is None` of run(): with no_cache,
\* or without a persisted report of this uid, the execution comes next;
\* otherwise run() returns the persisted results.
StageCachedResults ==
    /\ run.pc = "cached_results"
    /\ LET found == TestReport_get(reports, generated_uid(run.report))
       IN  IF run.no_cache \/ found = {}
           THEN run' = Advance(run, "cached_results", "execute")
           ELSE \E report \in found :
                   run' = [Advance(run, "cached_results", "returned")
                              EXCEPT !.results = report.results]
    /\ UNCHANGED <<vin, vst, reports, past, nruns, demos, cacheVars, legacyVars, restVars>>

\* StageExecute as it would be if a failing execution still had its report
\* written.
StageExecuteWritingOnError ==
    /\ run.pc = "execute"
    /\ \/ /\ \E results \in Results, partial \in BOOLEAN :
                run' = [Count(Advance(run, "execute", "write"), "executions", 1) EXCEPT
                           !.execution_summary = [results |-> results, partial |-> partial],
                           !.results = results]
          /\ UNCHANGED reports
       \/ /\ run' = Count(RaiseIn(run, "execute", "ExecutionError"), "executions", 1)
          /\ reports' = {r \in reports : generated_uid(r.report) # generated_uid(run.report)}
                        \cup {[report |-> run.report, results |-> NoResults]}
    /\ UNCHANGED <<vin, vst, past, nruns, demos, cacheVars, legacyVars, restVars>>

\* execute(): Execution.run returns a summary, of which the results are
\* kept, or raises.
StageExecute ==
    /\ run.pc = "execute"
    /\ \/ \E results \in Results, partial \in BOOLEAN :
             run' = [Count(Advance(run, "execute", "write"), "executions", 1) EXCEPT
                        !.execution_summary = [results |-> results, partial |-> partial],
                        !.results = results]
       \/ run' = Count(RaiseIn(run, "execute", "ExecutionError"), "executions", 1)
    /\ UNCHANGED <<vin, vst, reports, past, nruns, demos, cacheVars, legacyVars, restVars>>

\* write(): set_results on the report and its write under the generated uid;
\* then run() returns.
StageWrite ==
    /\ run.pc = "write"
    /\ LET uid == generated_uid(run.report)
           written == [report |-> run.report, results |-> run.results]
       IN  reports' = {r \in reports : generated_uid(r.report) # uid} \cup {written}
    /\ run' = Count(Advance(run, "write", "returned"), "writes", 1)
    /\ UNCHANGED <<vin, vst, past, nruns, demos, cacheVars, legacyVars, restVars>>

\* A session of compatibility tests on one combination of arguments, on a
\* fresh storage.
InitRun ==
    /\ vin \in RunInputs
    /\ vst = NewValidator
    /\ run = NoRun
    /\ reports = {}
    /\ past = RunSummary(NoRun)
    /\ nruns = 0
    /\ legacy = NoLegacy
    /\ legacyResults = {}
    /\ assoc = NoAssoc
    /\ server = NoServer
    /\ auth = NoAuth
    /\ bexec = NoBExec
    /\ files = Fresh.files
    /\ images = Fresh.images
    /\ links = Fresh.links
    /\ additional = Fresh.additional
    /\ cacheMeta = Fresh.cacheMeta
    /\ demos = Fresh.demos
    /\ call = [p \in Procs |-> IdleCall]
    /\ prev = Summary(IdleCall)
    /\ pre = Fresh
    /\ ncalls = 0

NextRun ==
    \/ RunStart
    \/ StageValidate
    \/ StageSetDataSource
    \/ StageProcessBenchmark
    \/ StagePrepareCubes
    \/ StagePrepareDataset
    \/ StageInitializeReport
    \/ StageCachedResults
    \/ StageExecute
    \/ StageWrite

SpecRun == InitRun /\ [][NextRun]_vars

----------------------------------------------------------------------------
(* The claims on CompatibilityTestExecution.run *)

IsPrefix(s, t) == Len(s) <= Len(t) /\ \A i \in 1..Len(s) : s[i] = t[i]

\* The report persisted under the uid of the run in progress, if any.
PersistedNow == TestReport_get(reports, generated_uid(run.report))
PersistedBefore == TestReport_get(run.stored, generated_uid(run.report))

RegisteredCubesOnly == \A f \in CubeInputs : ~is_path(vin[f])

\* C12: with no_cache false, a second identical run after a successful
\* first run returns the same results without executing, without rewriting
\* the report and without any additional download of the demo dataset.
C12_SecondRunFromCache ==
    (/\ RegisteredCubesOnly
     /\ past.pc = "returned"
     /\ ~run.no_cache
     /\ run.pc = "returned") =>
        /\ run.results = past.results
        /\ run.io.executions = 0
        /\ run.io.writes = 0
        /\ reports = run.stored
        /\ run.io.downloads = 0

\* C13: with no_cache true, every run that reaches the execute stage
\* invokes Execution.run exactly once, also when a report of the same uid
\* is persisted, and the new results replace the persisted ones.
C13_NoCacheExecutesOnce ==
    run.no_cache =>
        /\ run.pc \in {"execute", "write", "returned"} \/ "execute" \in
               {run.stages[i] : i \in 1..Len(run.stages)} =>
              run.io.executions = (IF run.pc = "execute" THEN 0 ELSE 1)
        /\ run.pc = "returned" =>
              /\ "execute" \in {run.stages[i] : i \in 1..Len(run.stages)}
              /\ PersistedNow = {[report |-> run.report,
                                  results |-> run.execution_summary.results]}
              /\ run.results = run.execution_summary.results

C13_Witness ==
    /\ run.no_cache
    /\ run.pc = "returned"
    /\ PersistedBefore # {}
    /\ \A r \in PersistedBefore : r.results # run.results

\* The arguments of this session are rejected by the validator.
InvalidInputs == validate(vin, NewValidator).pc = "raised"

C15_StagesInOrderAbortOnError ==
    /\ IsPrefix(run.stages, StageOrder)
    /\ ~RunOver(run) => run.pc = StageOrder[Len(run.stages) + 1]
    /\ run.pc = "returned" =>
          Len(run.stages) \in {Len(StageOrder), Len(StageOrder) - 2}
    /\ run.pc = "raised" =>
          /\ run.err # "none"
          /\ run.io.writes = 0
          /\ reports = run.stored
          /\ run.results = NoResults

C15_Witness ==
    /\ run.pc = "raised"
    /\ run.stages = SubSeq(StageOrder, 1, Len(StageOrder) - 1)
    /\ PersistedNow # {}

\* C16: the report persisted by a run that executed carries both outputs of
\* Execution.run unchanged, the results and the partial flag.
C16_ReportCarriesBothOutputs ==
    (run.pc = "returned" /\ run.io.writes = 1) =>
        \A r \in PersistedNow :
            /\ r.results = run.execution_summary.results
            /\ "partial" \in DOMAIN r
            /\ r.partial = run.execution_summary.partial

----------------------------------------------------------------------------
(* Further claims on the resource cache *)

\* The file get_cube / get_cube_params is asked for existed when the call
\* began.
CubeFileExisted == IsCubeOp(cur) /\ pre.files[CubePath(cur)] # Absent

\* C17: when the target file of get_cube or get_cube_params exists and no
\* expected hash is passed, the call downloads nothing and the file stays;
\* a download happens only for a supplied hash the file does not match.
C17_ExistingFileNoHashNoDownload ==
    (CubeFileExisted /\ cur.hash = NoHash) =>
        /\ cur.dl = 0
        /\ files[CubePath(cur)] = pre.files[CubePath(cur)]

----------------------------------------------------------------------------
(* Two invocations of one cache operation at the same time *)

ConcProcs == {1, 2}
ConcCubes == {"cubeA", "cubeB"}
ConcOps == {"get_cube_image", "get_benchmark_demo_dataset"}

\* The cube directory each invocation works for.
CubeOf(p) == IF p = 1 THEN "cubeA" ELSE "cubeB"

\* One process invokes get_cube_image for its own cube directory, or
\* get_benchmark_demo_dataset, while the other may be in the same operation.
BeginConc(p) ==
    /\ call[p].pc = "idle"
    /\ \E op \in ConcOps, url \in Descriptors, h \in Hashes \cup {NoHash} :
          /\ \A q \in ConcProcs : call[q].op \in {"none", op}
          /\ call' = [call EXCEPT ![p] = [IdleCall EXCEPT !.op = op, !.url = url,
                                          !.cube = CubeOf(p), !.hash = h, !.pc = "check"]]
    /\ UNCHANGED <<files, images, links, additional, cacheMeta, demos, prev, pre, ncalls,
                   vin, vst, pipeVars, legacyVars, restVars>>

InitConc ==
    /\ files = [path \in ConcCubes \X FileNames |-> Absent]
    /\ images = Fresh.images
    /\ links = [cube \in ConcCubes |-> NoHash]
    /\ additional = [cube \in ConcCubes |-> Absent]
    /\ cacheMeta = [cube \in ConcCubes |-> NoHash]
    /\ demos = Fresh.demos
    /\ call = [p \in ConcProcs |-> IdleCall]
    /\ prev = Summary(IdleCall)
    /\ pre = Fresh
    /\ ncalls = 0
    /\ vin = [f \in InputNames |-> ""]
    /\ vst = [NewValidator EXCEPT !.pc = "idle"]
    /\ run = NoRun
    /\ reports = {}
    /\ past = RunSummary(NoRun)
    /\ nruns = 0
    /\ legacy = NoLegacy
    /\ legacyResults = {}
    /\ assoc = NoAssoc
    /\ server = NoServer
    /\ auth = NoAuth
    /\ bexec = NoBExec

NextConc ==
    \E p \in ConcProcs :
        \/ BeginConc(p)
        \/ CheckImage(p)
        \/ CheckDemo(p)
        \/ Fetch(p)
        \/ Stream(p)
        \/ Verify(p)
        \/ Promote(p)
        \/ Move(p)
        \/ Untar(p)
        \/ Replace(p)
        \/ Rename(p)
        \/ Symlink(p)

SpecConc == InitConc /\ [][NextConc]_vars

\* The errors of an invocation's own download.
DownloadErrors == {"none", "InvalidArgumentError", "AuthenticationError", "RetrievalError",
                   "IntegrityError", "ExtractError"}

\* C18: two invocations of get_benchmark_demo_dataset that populate the same
\* hash-named folder at the same time both succeed, the folder is whole
\* whenever it exists, and a folder an invocation has returned is never
\* removed by the other.
C18_DemoRaceSafe ==
    /\ \A h \in Hashes : demos[h] # Absent => get_file_hash(demos[h]) = h
    /\ \A p \in ConcProcs :
          call[p].op = "get_benchmark_demo_dataset" =>
             /\ call[p].err \in DownloadErrors
             /\ call[p].pc = "done" => demos[demo_dataset_folder(call[p].ret)] # Absent

\* C19: two invocations of get_cube_image for two cube directories that
\* populate the same hash-named image at the same time both succeed, the
\* image is whole whenever it exists, and on completion the link of each
\* cube directory resolves to that image.
C19_ImageRaceSafe ==
    /\ \A h \in Hashes : images[h] # Absent => get_file_hash(images[h]) = h
    /\ \A p \in ConcProcs :
          call[p].op = "get_cube_image" =>
             /\ call[p].err \in DownloadErrors
             /\ call[p].pc = "done" =>
                   /\ links[CubeOf(p)] = img_storage(call[p].ret)
                   /\ images[img_storage(call[p].ret)] # Absent

C19_Witness ==
    /\ \A p \in ConcProcs :
          /\ call[p].op = "get_cube_image"
          /\ call[p].pc = "done"
          /\ call[p].dl = 1
    /\ call[1].ret = call[2].ret
    /\ links["cubeA"] = links["cubeB"]

----------------------------------------------------------------------------
(* get_cube_additional cut short after the folder was replaced *)

\* The process is stopped, or the write of the side-car file raises, once
\* the old folder is removed: nothing of the call runs afterwards.
Interrupt(p) ==
    LET c == call[p]
    IN  /\ c.op = "get_cube_additional"
        /\ c.pc \in {"rename", "meta"}
        /\ call' = [call EXCEPT ![p] = Fail(c, "Interrupted")]
        /\ UNCHANGED <<files, images, links, additional, cacheMeta, demos, prev, pre, ncalls,
                       vin, vst, pipeVars, legacyVars, restVars>>

NextCrash ==
    \/ NextCache
    \/ \E p \in Procs : Interrupt(p)

SpecCrash == InitCache /\ [][NextCrash]_vars

\* C20: whenever the additional-files folder exists and the side-car file
\* records a hash, the folder was extracted from the tarball of that hash,
\* also after a call was cut short between the replacement of the folder
\* and the write of the side-car file; so a later call that expects that
\* hash never takes a folder of another tarball for up to date.
C20_SideCarMatchesFolder ==
    \A cube \in Cubes :
        (Finished(cur) /\ additional[cube] # Absent /\ cacheMeta[cube] # NoHash) =>
            get_file_hash(additional[cube]) = cacheMeta[cube]

----------------------------------------------------------------------------
(* Failures, order of steps and frame of the cache operations *)

FailedOnTransfer ==
    cur.pc = "failed" /\ cur.err \in {"IntegrityError", "RetrievalError"}

\* C21: a cache operation that fails with an integrity or retrieval error
\* leaves the cache as it was before the call: get_cube_image leaves the
\* images storage and the link of the cube, get_cube, get_cube_params and
\* get_cube_additional leave the file or folder stored before.
C21_FailureLeavesCache ==
    FailedOnTransfer =>
        /\ cur.op = "get_cube_image" =>
              (images = pre.images /\ links[cur.cube] = pre.links[cur.cube])
        /\ IsCubeOp(cur) => files[CubePath(cur)] = pre.files[CubePath(cur)]
        /\ cur.op = "get_cube_additional" =>
              (additional[cur.cube] = pre.additional[cur.cube]
               /\ cacheMeta[cur.cube] = pre.cacheMeta[cur.cube])

\* The file at the target path of get_cube / get_cube_params does not have
\* the expected hash that is passed.
StaleCubeFile ==
    /\ CubeFileExisted
    /\ cur.hash # NoHash
    /\ get_file_hash(pre.files[CubePath(cur)]) # cur.hash

\* C22: when get_cube or get_cube_params is called with an expected hash and
\* the file at the target path has another hash, the call does not fail
\* because of that file: it goes on to download, and when it returns the
\* target path holds a fresh download of the expected hash.
C22_StaleFileReplaced ==
    StaleCubeFile =>
        /\ ~(cur.pc = "failed" /\ cur.dl = 0 /\ Recognised(cur.url))
        /\ cur.pc = "done" =>
              (cur.dl = 1 /\ get_file_hash(files[CubePath(cur)]) = cur.hash)

DownloadOrder == <<"recognise", "authenticate", "download", "verify", "promote">>

Entered(step) == \E i \in 1..Len(cur.steps) : cur.steps[i] = step

\* C23: download_resource goes through its steps in the order recognise,
\* authenticate, download, verify, promote, and a step that fails is the
\* last: an unrecognised descriptor raises InvalidArgumentError with no
\* authentication and no download, an authentication failure comes before
\* any byte is received, and only a verified file is promoted.
C23_DownloadResourceOrder ==
    /\ IsPrefix(cur.steps, DownloadOrder)
    /\ ~Recognised(cur.url) /\ Entered("recognise") =>
          (cur.pc = "failed" /\ cur.err = "InvalidArgumentError"
           /\ cur.steps = <<"recognise">> /\ cur.dl = 0 /\ cur.tmp = "none")
    /\ cur.err = "AuthenticationError" =>
          (cur.steps = SubSeq(DownloadOrder, 1, 2) /\ cur.dl = 0 /\ cur.tmp = "none")
    /\ cur.err = "RetrievalError" => cur.steps = SubSeq(DownloadOrder, 1, 3)
    /\ cur.err = "IntegrityError" /\ cur.dl > 0 => cur.steps = SubSeq(DownloadOrder, 1, 4)
    /\ Entered("promote") => (cur.ret # NoHash /\ verify_hash(cur.ret, cur.hash))
    /\ (cur.pc = "done"
        /\ <<files, images, additional, demos>>
              # <<pre.files, pre.images, pre.additional, pre.demos>>) =>
          cur.steps = DownloadOrder

C23_Witness ==
    /\ cur.pc = "done"
    /\ cur.hash # NoHash
    /\ cur.steps = DownloadOrder
    /\ prev.pc = "failed"

\* C24: each call of a cache operation invokes the download of the source
\* at most once: a retrieval or integrity failure ends the call without a
\* second attempt.
C24_AtMostOneDownload ==
    /\ cur.dl <= 1
    /\ Len(SelectSeq(cur.steps, LAMBDA step : step = "download")) = cur.dl
    /\ FailedOnTransfer /\ Entered("download") => cur.dl = 1

C24_Witness ==
    /\ FailedOnTransfer
    /\ cur.err = "RetrievalError"
    /\ cur.tmp = "partial"
    /\ cur.dl = 1

\* The step of to_permanent_path is being taken.
Promoting == cur.pc = "promote" /\ cur'.pc # "promote"

\* C25: after to_permanent_path(tmp, final) the final path holds exactly the
\* content that was at the temporary path and the temporary path is gone;
\* the move is one step, so the final path never holds part of the content.
C25_PromoteMovesWhole ==
    [][Promoting =>
          /\ cur.tmp = "file" /\ cur.tmpc \in Contents
          /\ IsCubeOp(cur) =>
                /\ files' = [files EXCEPT ![CubePath(cur)] = cur.tmpc]
                /\ cur'.tmp = "none" /\ cur'.tmpc = Absent
                /\ images' = images
          /\ cur.op = "get_cube_image" /\ cur.hash # NoHash =>
                /\ images' = [images EXCEPT ![img_storage(cur.hash)] = cur.tmpc]
                /\ cur'.tmp = "none" /\ cur'.tmpc = Absent
                /\ files' = files
          /\ ~IsCubeOp(cur) /\ ~(cur.op = "get_cube_image" /\ cur.hash # NoHash) =>
                /\ cur'.tmpc = cur.tmpc /\ cur'.tmp \in {"file", "tarball"}
                /\ files' = files /\ images' = images
          /\ UNCHANGED <<links, additional, cacheMeta, demos>>]_vars

C25_Witness ==
    /\ cur.pc = "done"
    /\ IsCubeOp(cur)
    /\ Entered("promote")
    /\ files[CubePath(cur)] \in Contents
    /\ cur.tmp = "none"
    /\ pre.files[CubePath(cur)] # Absent

\* The download of the source raised: it is the last step the call entered.
DownloadRaised == cur.pc = "failed" /\ cur.steps = SubSeq(DownloadOrder, 1, 3)

\* The download of the source has just returned.
DownloadReturned == cur.pc = "verify"

\* C26 as stated: PublicSource.download either has written the whole
\* response body to the destination when it returns, or it raises the
\* retrieval error and no file exists at the destination.
C26_CompleteOrUntouched ==
    /\ DownloadReturned => (cur.tmp = "file" /\ cur.tmpc = Remote(cur.url))
    /\ DownloadRaised => (cur.err = "RetrievalError" /\ cur.tmp = "none")

\* C26, amended: when PublicSource.download returns, the destination holds
\* the whole response body; when the status is not 200 it raises the
\* retrieval error and no file is created; when the transfer breaks after
\* the status check it raises and leaves a partly written file at the
\* destination. In no case is another path touched.
C26_CompleteOrRaised ==
    [][/\ DownloadReturned' /\ ~DownloadReturned =>
             (cur.pc = "stream" /\ cur'.tmp = "file" /\ cur'.tmpc = Remote(cur.url))
       /\ DownloadRaised' /\ cur.pc = "fetch" =>
             (cur'.err = "RetrievalError" /\ cur'.tmp = "none" /\ cur'.tmpc = Absent)
       /\ DownloadRaised' /\ cur.pc = "stream" =>
             (cur'.err = "RetrievalError" /\ cur'.tmp = "partial" /\ cur'.tmpc = Absent)
       /\ cur.pc \in {"fetch", "stream"} => Snapshot' = Snapshot]_vars

C26_Witness ==
    /\ DownloadRaised
    /\ cur.tmp = "none"
    /\ cur.dl = 1
    /\ cur.op = "get_cube_additional"

----------------------------------------------------------------------------
(* get_cube_image on a storage left by earlier sessions *)

\* An earlier session left any set of images, each under its hash, and any
\* link at the cube-local path: none, one to an image, or a broken one.
BeginImage(p) ==
    /\ Finished(call[p])
    /\ ncalls < MaxCalls
    /\ \E url \in Descriptors, h \in Hashes \cup {NoHash} :
          call' = [call EXCEPT ![p] = [IdleCall EXCEPT !.op = "get_cube_image", !.url = url,
                                          !.cube = "cubeA", !.hash = h, !.pc = "check"]]
    /\ prev' = Summary(call[p])
    /\ pre' = Snapshot
    /\ ncalls' = ncalls + 1
    /\ UNCHANGED <<files, images, links, additional, cacheMeta, demos, vin, vst, pipeVars, legacyVars, restVars>>

InitLink ==
    /\ files = Fresh.files
    /\ images \in {im \in [Hashes -> Contents \cup {Absent}] :
                      \A h \in Hashes : im[h] # Absent => get_file_hash(im[h]) = h}
    /\ links \in [Cubes -> Hashes \cup {NoHash}]
    /\ additional = Fresh.additional
    /\ cacheMeta = Fresh.cacheMeta
    /\ demos = Fresh.demos
    /\ call = [p \in Procs |-> IdleCall]
    /\ prev = Summary(IdleCall)
    /\ pre = [Fresh EXCEPT !.images = images, !.links = links]
    /\ ncalls = 0
    /\ vin = [f \in InputNames |-> ""]
    /\ vst = [NewValidator EXCEPT !.pc = "idle"]
    /\ run = NoRun
    /\ reports = {}
    /\ past = RunSummary(NoRun)
    /\ nruns = 0
    /\ legacy = NoLegacy
    /\ legacyResults = {}
    /\ assoc = NoAssoc
    /\ server = NoServer
    /\ auth = NoAuth
    /\ bexec = NoBExec

NextLink ==
    \E p \in Procs :
        \/ BeginImage(p)
        \/ CheckImage(p)
        \/ Fetch(p)
        \/ Stream(p)
        \/ Verify(p)
        \/ Promote(p)
        \/ Move(p)
        \/ Symlink(p)

SpecLink == InitLink /\ [][NextLink]_vars

\* The link at the cube-local path when the call began: broken, or one to
\* another image than the one the call returns.
BrokenLinkBefore == pre.links[cur.cube] # NoHash /\ pre.images[pre.links[cur.cube]] = Absent
OtherLinkBefore == pre.links[cur.cube] \notin {NoHash, img_storage(cur.ret)}

\* C27: after every get_cube_image call that returns, the cube-local image
\* path is a link to the shared image named by the returned hash and that
\* image exists; a link found at the cube-local path, broken or to another
\* image, is replaced and never makes the call fail.
C27_LinkToReturnedImage ==
    cur.op = "get_cube_image" =>
        /\ cur.err \in DownloadErrors
        /\ cur.pc = "done" =>
              /\ cur.out = "link"
              /\ links[cur.cube] = img_storage(cur.ret)
              /\ images[img_storage(cur.ret)] # Absent

C27_Witness ==
    /\ cur.op = "get_cube_image"
    /\ cur.pc = "done"
    /\ BrokenLinkBefore
    /\ OtherLinkBefore
    /\ cur.dl = 0

----------------------------------------------------------------------------
(* Further claims on the stages of CompatibilityTestExecution.run *)

\* process_benchmark has returned and prepare_cubes has not begun.
BenchmarkProcessed == run.pc = "prepare_cubes"

\* C28: process_benchmark never overwrites a cube the caller supplied. With
\* a benchmark, model and evaluator come from it only when the caller left
\* them empty, the preparation cube only when it is empty and the data
\* source is not "prepared", the demo dataset url and hash only when the
\* data source is "benchmark"; without a benchmark every field is as the
\* caller gave it and no record is fetched.
C28_BenchmarkFillsOnlyEmpty ==
    BenchmarkProcessed =>
        /\ \A f \in CubeInputs : Given(vin[f]) => run[f] = vin[f]
        /\ Given(vin.benchmark_uid) =>
              /\ ~Given(vin.model) => run.model = TheBenchmark.reference_model_mlcube
              /\ ~Given(vin.evaluator) => run.evaluator = TheBenchmark.data_evaluator_mlcube
              /\ ~Given(vin.data_prep) =>
                    run.data_prep = (IF run.data_source # "prepared"
                                     THEN TheBenchmark.data_preparation_mlcube ELSE "")
              /\ run.data_source = "benchmark" =>
                    /\ run.demo_dataset_url = TheBenchmark.demo_dataset_tarball_url
                    /\ run.demo_dataset_hash = TheBenchmark.demo_dataset_tarball_hash
              /\ run.data_source # "benchmark" =>
                    /\ run.demo_dataset_url = vin.demo_dataset_url
                    /\ run.demo_dataset_hash = vin.demo_dataset_hash
              /\ run.io.fetched = 1
        /\ ~Given(vin.benchmark_uid) =>
              /\ \A f \in CubeInputs \cup {"demo_dataset_url", "demo_dataset_hash", "data_uid"} :
                    run[f] = vin[f]
              /\ run.io = NoIO

C28_Witness ==
    /\ BenchmarkProcessed
    /\ Given(vin.benchmark_uid)
    /\ Given(vin.model) /\ ~Given(vin.evaluator)
    /\ run.data_source = "prepared"
    /\ run.evaluator = TheBenchmark.data_evaluator_mlcube

\* prepare_dataset has been entered and left, by a return or by an error.
DatasetStageOver ==
    /\ run.pc # "prepare_dataset"
    /\ \E i \in 1..Len(run.stages) : run.stages[i] = "prepare_dataset"

DatasetStageReturned ==
    /\ DatasetStageOver
    /\ ~(run.pc = "raised" /\ run.stages[Len(run.stages)] = "prepare_dataset")

\* The demo datasets a data preparation can have worked on: those in the
\* storage.
StoredDemoUids ==
    {create_test_dataset(ToString(demos[f])) : f \in {g \in DOMAIN demos : demos[g] # Absent}}

\* C29: the dataset stage dispatches on the data source. "prepared": no data
\* preparation, no demo download, no preparation cube, the caller's data_uid.
\* "path": data preparation on the caller's paths, no demo download. "demo"
\* and "benchmark": the demo dataset is obtained first, data preparation
\* follows. Whenever the source is not "prepared" the data_uid is the one
\* data preparation returned.
C29_DatasetStageDispatch ==
    /\ DatasetStageOver /\ run.data_source = "prepared" =>
          /\ run.io.preparations = 0
          /\ run.io.downloads = 0
          /\ run.data_prep = vin.data_prep
          /\ run.data_uid = vin.data_uid
    /\ DatasetStageOver /\ run.data_source = "path" =>
          /\ run.io.preparations = 1
          /\ run.io.downloads = 0
          /\ DatasetStageReturned => run.data_uid = create_test_dataset("path")
    /\ DatasetStageOver /\ run.data_source \in {"demo", "benchmark"} =>
          /\ run.io.downloads <= 1
          /\ run.io.preparations <= 1
          /\ run.err \in {"RetrievalError", "IntegrityError"} => run.io.preparations = 0
          /\ DatasetStageReturned =>
                /\ run.io.preparations = 1
                /\ run.data_uid \in StoredDemoUids
    /\ DatasetStageOver => run.data_source \in {"prepared", "path", "demo", "benchmark"}

C29_Witness ==
    /\ DatasetStageReturned
    /\ run.data_source = "benchmark"
    /\ run.io.downloads = 1
    /\ run.io.preparations = 1
    /\ run.data_uid \in StoredDemoUids
    /\ run.data_uid # vin.data_uid

----------------------------------------------------------------------------
(* commands/compatibility_test.py: CompatibilityTestExecution *)

LegacyBenchmarks == {"", "1"}
LegacyDatasets == {"", "D"}

LegacyArgs == {a \in [DOMAIN NoLegacyArgs -> LegacyBenchmarks \cup LegacyDatasets \cup CubeArgs] :
                 /\ a.benchmark_uid \in LegacyBenchmarks
                 /\ a.data_uid \in LegacyDatasets
                 /\ \A f \in CubeInputs : a[f] \in CubeArgs}

\* str(val).isdigit()
isdigit(val) == val = "7"

\* The registered dataset D was prepared with the benchmark's cube.
preparation_cube_uid(data_uid) == TheBenchmark.data_preparation_mlcube

\* Benchmark.tmp(data_prep, model, evaluator).generated_uid
Benchmark_tmp(data_prep, model, evaluator) ==
    "p" \o data_prep \o "m" \o model \o "e" \o evaluator

\* f"b{self.benchmark_uid}m{self.model}d{self.dataset.generated_uid}"
result_tmp_uid(t) == "b" \o t.benchmark_uid \o "m" \o t.model \o "d" \o t.dataset

\* Result.get(uid): the stored results of this uid.
Result_get(store, uid) == {r \in store : r.uid = uid}

LegacyOver(t) == t.pc \in {"idle", "returned", "raised"}

LegacyRaise(t, error) == [t EXCEPT !.pc = "raised", !.err = error]

\* set_cube_uid(attr, fallback) at second now: an empty attribute takes the
\* fallback, a uid stays, an existing path is linked under a temporary uid
\* named after the second, anything else is an error.
set_cube_uid(t, attr, fallback, exists, now) ==
    IF t.pc = "raised" THEN t
    ELSE IF ~Given(t[attr]) THEN [t EXCEPT ![attr] = fallback]
    ELSE IF isdigit(t[attr]) THEN t
    ELSE IF exists
         THEN LET temp_uid == "test_" \o ToString(now)
              IN  IF temp_uid \in t.linked
                  THEN [LegacyRaise(t, "FileExistsError") EXCEPT !.clock = now]
                  ELSE [t EXCEPT ![attr] = temp_uid, !.linked = @ \cup {temp_uid},
                                 !.clock = now]
    ELSE LegacyRaise(t, "InvalidArgumentError")

\* run(): the constructor, on arguments a.
LegacyNew(t, a, force_test) ==
    [NoLegacy EXCEPT !.pc = "validate", !.args = a, !.benchmark_uid = a.benchmark_uid,
                     !.data_uid = a.data_uid, !.data_prep = a.data_prep,
                     !.model = a.model, !.evaluator = a.evaluator,
                     !.force_test = force_test, !.n = t.n + 1,
                     !.clock = t.clock, !.linked = t.linked]

\* run() called from the command line.
LegacyRun ==
    /\ LegacyOver(legacy)
    /\ legacy.n < MaxRuns
    /\ \E a \in LegacyArgs, force_test \in BOOLEAN :
          legacy' = LegacyNew(legacy, a, force_test)
    /\ UNCHANGED <<legacyResults, vin, vst, demos, cacheVars, pipeVars, restVars>>

\* validate()
LegacyValidate ==
    /\ legacy.pc = "validate"
    /\ LET none_params == {f \in {"data_uid", "model", "evaluator"} : ~Given(legacy[f])}
       IN  legacy' =
              IF ~Given(legacy.benchmark_uid) /\ none_params # {}
              THEN LegacyRaise(legacy, "InvalidArgumentError")
              ELSE IF Given(legacy.data_uid) /\ Given(legacy.data_prep)
              THEN LegacyRaise(legacy, "InvalidArgumentError")
              ELSE IF Given(legacy.benchmark_uid) /\ none_params = {}
              THEN LegacyRaise(legacy, "InvalidArgumentError")
              ELSE [legacy EXCEPT !.pc = "prepare_test"]
    /\ UNCHANGED <<legacyResults, vin, vst, demos, cacheVars, pipeVars, restVars>>

\* prepare_test(): the benchmark is read, which may fail, and the three
\* cubes are set in their order, each at the second time() returns.
LegacyPrepareTest ==
    /\ legacy.pc = "prepare_test"
    /\ \/ /\ Given(legacy.benchmark_uid)
          /\ legacy' = LegacyRaise(legacy, "CommunicationError")
       \/ \E exists \in BOOLEAN, t1, t2, t3 \in legacy.clock..MaxClock :
             /\ t1 <= t2 /\ t2 <= t3
             /\ LET b == TheBenchmark
                    with == Given(legacy.benchmark_uid)
                    c0 == [legacy EXCEPT !.benchmark = legacy.benchmark_uid]
                    c1 == set_cube_uid(c0, "data_prep",
                             IF with THEN b.data_preparation_mlcube ELSE "", exists, t1)
                    c2 == set_cube_uid(c1, "model",
                             IF with THEN b.reference_model_mlcube ELSE "", exists, t2)
                    c3 == set_cube_uid(c2, "evaluator",
                             IF with THEN b.data_evaluator_mlcube ELSE "", exists, t3)
                IN  legacy' = IF c3.pc = "raised" THEN c3
                              ELSE [c3 EXCEPT !.pc = "set_data_uid"]
    /\ UNCHANGED <<legacyResults, vin, vst, demos, cacheVars, pipeVars, restVars>>

\* set_data_uid(): a given dataset is read and names its preparation cube;
\* otherwise the demo dataset is downloaded and prepared, either of which
\* may fail.
LegacySetDataUid ==
    /\ legacy.pc = "set_data_uid"
    /\ \/ /\ Given(legacy.data_uid)
          /\ legacy' = [legacy EXCEPT !.pc = "cached_result",
                           !.dataset = legacy.data_uid,
                           !.data_prep = preparation_cube_uid(legacy.data_uid)]
       \/ /\ ~Given(legacy.data_uid)
          /\ \/ legacy' = LegacyRaise(legacy, "InvalidEntityError")
             \/ legacy' = LegacyRaise(legacy, "ExecutionError")
             \/ LET origin == IF Given(legacy.args.data_prep) THEN legacy.args.data_prep
                              ELSE legacy.data_prep
                    uid == create_test_dataset(origin)
                IN  legacy' = [legacy EXCEPT !.pc = "cached_result", !.data_uid = uid,
                                             !.dataset = uid]
    /\ UNCHANGED <<legacyResults, vin, vst, demos, cacheVars, pipeVars, restVars>>

\* cached_result() and the `or` of run(): with force_test, or without a
\* stored result of the uid, execute_benchmark comes next; otherwise run()
\* returns the stored result.
LegacyCachedResult ==
    /\ legacy.pc = "cached_result"
    /\ LET tmp_result_uid == result_tmp_uid(legacy)
           found == Result_get(legacyResults, tmp_result_uid)
       IN  IF legacy.force_test
           THEN legacy' = [legacy EXCEPT !.pc = "execute_benchmark"]
           ELSE IF found = {}
           THEN legacy' = [legacy EXCEPT !.pc = "execute_benchmark",
                                         !.looked_up = tmp_result_uid]
           ELSE \E result \in found :
                   legacy' = [legacy EXCEPT !.pc = "returned", !.cached = TRUE,
                                            !.looked_up = tmp_result_uid,
                                            !.result = result]
    /\ UNCHANGED <<legacyResults, vin, vst, demos, cacheVars, pipeVars, restVars>>

\* execute_benchmark(): a temporary benchmark replaces the given one when
\* there is none or when its preparation cube or evaluator is not the one of
\* this test; the execution, which may fail, stores the result under the uid
\* that is read back.
LegacyExecuteBenchmark ==
    /\ legacy.pc = "execute_benchmark"
    /\ LET b == TheBenchmark
           tmp == \/ ~Given(legacy.benchmark_uid)
                  \/ b.data_preparation_mlcube # legacy.data_prep
                  \/ b.data_evaluator_mlcube # legacy.evaluator
           t == IF tmp
                THEN [legacy EXCEPT
                        !.benchmark_uid = Benchmark_tmp(legacy.data_prep, legacy.model,
                                                        legacy.evaluator)]
                ELSE legacy
           result == [uid |-> result_tmp_uid(t), data_prep |-> t.data_prep,
                      model |-> t.model, evaluator |-> t.evaluator, dataset |-> t.dataset]
       IN  \/ /\ legacy' = LegacyRaise(t, "ExecutionError")
              /\ UNCHANGED legacyResults
           \/ /\ legacy' = [t EXCEPT !.pc = "returned", !.result = result,
                                     !.executions = @ + 1]
              /\ legacyResults' = {r \in legacyResults : r.uid # result.uid} \cup {result}
    /\ UNCHANGED <<vin, vst, demos, cacheVars, pipeVars, restVars>>

\* The storage is empty; the cache, the validator and the pipeline of
\* commands/compatibility_test/ are not in use.
InitLegacy ==
    /\ legacy = NoLegacy
    /\ legacyResults = {}
    /\ assoc = NoAssoc
    /\ server = NoServer
    /\ auth = NoAuth
    /\ bexec = NoBExec
    /\ vin = [f \in InputNames |-> ""]
    /\ vst = NewValidator
    /\ run = NoRun
    /\ reports = {}
    /\ past = RunSummary(NoRun)
    /\ nruns = 0
    /\ files = Fresh.files
    /\ images = Fresh.images
    /\ links = Fresh.links
    /\ additional = Fresh.additional
    /\ cacheMeta = Fresh.cacheMeta
    /\ demos = Fresh.demos
    /\ call = [p \in Procs |-> IdleCall]
    /\ prev = Summary(IdleCall)
    /\ pre = Fresh
    /\ ncalls = 0

NextLegacy ==
    \/ LegacyRun
    \/ LegacyValidate
    \/ LegacyPrepareTest
    \/ LegacySetDataUid
    \/ LegacyCachedResult
    \/ LegacyExecuteBenchmark

SpecLegacy == InitLegacy /\ [][NextLegacy]_vars

\* cached_result has returned a stored result.
ReturnedFromStore == legacy.pc = "returned" /\ legacy.cached

\* C30: a result that cached_result returns was produced by an execution
\* with the data preparation cube, the model, the evaluator and the dataset
\* this invocation resolved to; in particular a result of the benchmark's
\* evaluator is never returned to an invocation that overrides the evaluator.
C30_CachedResultOfSameTest ==
    ReturnedFromStore =>
        /\ legacy.result.data_prep = legacy.data_prep
        /\ legacy.result.model = legacy.model
        /\ legacy.result.evaluator = legacy.evaluator
        /\ legacy.result.dataset = legacy.dataset

\* execute_benchmark has stored a result after cached_result looked for one.
ExecutedAfterLookup ==
    /\ legacy.pc = "returned"
    /\ ~legacy.cached
    /\ ~legacy.force_test

\* C31: the uid cached_result looks up before the execution is the uid under
\* which execute_benchmark stores and reads the result, for every valid
\* combination of arguments; a successful invocation repeated with the same
\* arguments and force_test false is therefore not executed again.
C31_LookupUidIsStoredUid ==
    ExecutedAfterLookup => legacy.result.uid = legacy.looked_up

\* The cubes given to run() as local paths.
LegacyPathCubes == {f \in CubeInputs : is_path(legacy.args[f])}

\* prepare_test has been left, by a return or by an error.
PrepareTestOver == legacy.pc \notin {"idle", "validate", "prepare_test"}

\* C32: each cube given as a local path gets a synthetic uid and a link of
\* its own: with two or three local paths in one invocation the uids are
\* pairwise distinct and every symlink is created, whatever second the clock
\* returns for each.
C32_PathCubesLinkedApart ==
    PrepareTestOver /\ Cardinality(LegacyPathCubes) >= 2 =>
        /\ legacy.err # "FileExistsError"
        /\ legacy.pc # "raised" =>
              \A f, g \in LegacyPathCubes : f # g => legacy[f] # legacy[g]

----------------------------------------------------------------------------
(* commands/dataset/associate.py: AssociateDataset *)

\* D is registered, X is a local dataset without an id.
AssocDatasets == {"D", "X"}
registered(data_uid) == data_uid = "D"

\* Benchmark 1 is TheBenchmark, benchmark 2 prepares with another cube.
AssocBenchmarks == {"1", "2"}
benchmark_preparation(benchmark_uid) ==
    IF benchmark_uid = "1" THEN TheBenchmark.data_preparation_mlcube ELSE "P2"

AssocOrder == <<"registered", "prepared_for", "tested", "approved", "sent">>

AssocOver(a) == a.pc \in {"idle", "returned", "raised"}

AssocPass(a, step, next) == [a EXCEPT !.pc = next, !.steps = Append(@, step)]

AssocRaise(a, error) == [a EXCEPT !.pc = "raised", !.err = error]

\* run(data_uid, benchmark_uid, approved, force_test)
AssociateRun ==
    /\ AssocOver(assoc)
    /\ assoc.n < MaxRuns
    /\ \E data_uid \in AssocDatasets, benchmark_uid \in AssocBenchmarks,
          approved, force_test \in BOOLEAN :
          assoc' = [NoAssoc EXCEPT !.pc = "get_dataset", !.data_uid = data_uid,
                                   !.benchmark_uid = benchmark_uid,
                                   !.approved = approved, !.force_test = force_test,
                                   !.n = assoc.n + 1, !.sent = assoc.sent]
    /\ UNCHANGED <<bexec, auth, server, vin, vst, demos, cacheVars, pipeVars, legacyVars>>

\* dset = Dataset.get(data_uid), which may fail, and the test of dset.id
AssociateGetDataset ==
    /\ assoc.pc = "get_dataset"
    /\ \/ assoc' = AssocRaise(assoc, "CommunicationError")
       \/ assoc' = IF ~registered(assoc.data_uid)
                   THEN AssocRaise(assoc, "InvalidArgumentError")
                   ELSE AssocPass(assoc, "registered", "get_benchmark")
    /\ UNCHANGED <<bexec, auth, server, vin, vst, demos, cacheVars, pipeVars, legacyVars>>

\* AssociateGetBenchmark as it would be if the preparation cubes were not
\* compared.
AssociateGetBenchmarkUncompared ==
    /\ assoc.pc = "get_benchmark"
    /\ \/ assoc' = AssocRaise(assoc, "CommunicationError")
       \/ assoc' = AssocPass(assoc, "prepared_for", "test")
    /\ UNCHANGED <<bexec, auth, server, vin, vst, demos, cacheVars, pipeVars, legacyVars>>

\* benchmark = Benchmark.get(benchmark_uid), which may fail, and the
\* comparison of the preparation cubes
AssociateGetBenchmark ==
    /\ assoc.pc = "get_benchmark"
    /\ \/ assoc' = AssocRaise(assoc, "CommunicationError")
       \/ assoc' = IF preparation_cube_uid(assoc.data_uid)
                        # benchmark_preparation(assoc.benchmark_uid)
                   THEN AssocRaise(assoc, "InvalidArgumentError")
                   ELSE AssocPass(assoc, "prepared_for", "test")
    /\ UNCHANGED <<bexec, auth, server, vin, vst, demos, cacheVars, pipeVars, legacyVars>>

\* CompatibilityTestExecution.run(benchmark_uid, data_uid=data_uid,
\* force_test=force_test) is entered.
AssociateTest ==
    /\ assoc.pc = "test"
    /\ assoc' = [assoc EXCEPT !.pc = "testing"]
    /\ legacy' = LegacyNew(legacy, [NoLegacyArgs EXCEPT
                                       !.benchmark_uid = assoc.benchmark_uid,
                                       !.data_uid = assoc.data_uid],
                           assoc.force_test)
    /\ UNCHANGED <<legacyResults, bexec, auth, server, vin, vst, demos, cacheVars, pipeVars>>

\* The compatibility test is over: its error is not caught, its result is
\* printed.
AssociateTested ==
    /\ assoc.pc = "testing"
    /\ LegacyOver(legacy)
    /\ assoc' = IF legacy.pc = "raised" THEN AssocRaise(assoc, legacy.err)
                ELSE AssocPass(assoc, "tested", "approve")
    /\ UNCHANGED <<bexec, auth, server, vin, vst, demos, cacheVars, pipeVars, legacyVars>>

\* approved = approved or approval_prompt(msg): the prompt is shown only
\* without the flag; a refusal is a CleanExit.
AssociateApprove ==
    /\ assoc.pc = "approve"
    /\ \/ /\ assoc.approved
          /\ assoc' = AssocPass(assoc, "approved", "send")
       \/ /\ ~assoc.approved
          /\ \E answer \in BOOLEAN :
                LET a == [assoc EXCEPT !.prompted = TRUE, !.answer = answer]
                IN  assoc' = IF answer THEN AssocPass(a, "approved", "send")
                             ELSE AssocRaise(a, "CleanExit")
    /\ UNCHANGED <<bexec, auth, server, vin, vst, demos, cacheVars, pipeVars, legacyVars>>

\* comms.associate_dset(dset.id, benchmark_uid, metadata), which may fail
AssociateSend ==
    /\ assoc.pc = "send"
    /\ \/ assoc' = AssocRaise(assoc, "CommunicationError")
       \/ assoc' = [AssocPass(assoc, "sent", "returned") EXCEPT
                      !.sent = Append(@, [data_uid |-> assoc.data_uid,
                                          benchmark_uid |-> assoc.benchmark_uid,
                                          test_result |-> legacy.result.uid])]
    /\ UNCHANGED <<bexec, auth, server, vin, vst, demos, cacheVars, pipeVars, legacyVars>>

\* Nothing is stored and the other commands are not in use.
InitAssoc ==
    /\ assoc = NoAssoc
    /\ server = NoServer
    /\ auth = NoAuth
    /\ bexec = NoBExec
    /\ legacy = NoLegacy
    /\ legacyResults = {}
    /\ vin = [f \in InputNames |-> ""]
    /\ vst = NewValidator
    /\ run = NoRun
    /\ reports = {}
    /\ past = RunSummary(NoRun)
    /\ nruns = 0
    /\ files = Fresh.files
    /\ images = Fresh.images
    /\ links = Fresh.links
    /\ additional = Fresh.additional
    /\ cacheMeta = Fresh.cacheMeta
    /\ demos = Fresh.demos
    /\ call = [p \in Procs |-> IdleCall]
    /\ prev = Summary(IdleCall)
    /\ pre = Fresh
    /\ ncalls = 0

NextAssoc ==
    \/ AssociateRun
    \/ AssociateGetDataset
    \/ AssociateGetBenchmark
    \/ AssociateTest
    \/ LegacyValidate
    \/ LegacyPrepareTest
    \/ LegacySetDataUid
    \/ LegacyCachedResult
    \/ LegacyExecuteBenchmark
    \/ AssociateTested
    \/ AssociateApprove
    \/ AssociateSend

SpecAssoc == InitAssoc /\ [][NextAssoc]_vars

\* The call in progress has sent its request.
RequestSent == Len(assoc.steps) > 0 /\ assoc.steps[Len(assoc.steps)] = "sent"

\* C33: the association request is sent only after, in this order, the
\* dataset was found registered, its preparation cube was found to be the
\* benchmark's, the compatibility test returned without error and approval
\* was given by the flag or at the prompt; otherwise no request is sent, and
\* a declined prompt raises CleanExit.
C33_RequestAfterAllChecks ==
    /\ IsPrefix(assoc.steps, AssocOrder)
    /\ Len(assoc.sent) <= assoc.n
    /\ Len(assoc.sent) = assoc.n => assoc.n = 0 \/ RequestSent
    /\ RequestSent =>
          /\ assoc.pc = "returned"
          /\ registered(assoc.data_uid)
          /\ preparation_cube_uid(assoc.data_uid) = benchmark_preparation(assoc.benchmark_uid)
          /\ legacy.pc = "returned"
          /\ legacy.args.data_uid = assoc.data_uid
          /\ assoc.approved \/ (assoc.prompted /\ assoc.answer)
          /\ assoc.sent[Len(assoc.sent)].data_uid = assoc.data_uid
    /\ assoc.pc = "raised" => ~RequestSent
    /\ assoc.prompted /\ ~assoc.answer => assoc.pc = "raised" /\ assoc.err = "CleanExit"
    /\ assoc.prompted => ~assoc.approved

C33_Witness ==
    /\ RequestSent
    /\ assoc.prompted
    /\ assoc.n = 2
    /\ Len(assoc.sent) = 1

----------------------------------------------------------------------------
(* commands/result/create.py: BenchmarkExecution *)

ExecModels == {"m1", "m2"}
ExecBenchmarks == {"1", "2"}
ExecDatasets == {"D", "E"}

\* The results earlier executions can have left in the storage, one of a name
\* at most.
EarlierResults ==
    {[benchmark |-> k[1], dataset |-> k[2], model |-> k[3], partial |-> FALSE,
      origin |-> "earlier"] :
        k \in {<<"1", "D", "m1">>, <<"1", "D", "m2">>, <<"2", "D", "m1">>, <<"1", "E", "m1">>}}

ModelLists == UNION {[1..n -> ExecModels] : n \in 0..MaxModels}

\* f"b{self.benchmark_uid}m{model_uid}d{self.data_uid}"
result_name(r) == "b" \o r.benchmark \o "m" \o r.model \o "d" \o r.dataset

\* Result.write(): the file of this name is replaced.
Result_write(store, result) ==
    {r \in store : result_name(r) # result_name(result)} \cup {result}

\* The model at the head of the loop.
NextModel(e) == e.models_uids[Len(e.experiments) + 1]

\* The results in cached_results for a model.
CachedFor(e, model_uid) == {r \in e.cached_results : r.model = model_uid}

\* run(): the constructor, prepare, validate, prepare_models and
\* validate_models, on a dataset and models that pass.
BenchmarkExecutionRun ==
    /\ bexec.pc = "idle"
    /\ \E benchmark_uid \in ExecBenchmarks, data_uid \in ExecDatasets,
          models_uids \in ModelLists, use_cache, ignore_failed_experiments \in BOOLEAN :
          bexec' = [bexec EXCEPT !.pc = IF use_cache THEN "load_cached_results"
                                        ELSE "run_experiments",
                                 !.benchmark_uid = benchmark_uid, !.data_uid = data_uid,
                                 !.models_uids = models_uids, !.use_cache = use_cache,
                                 !.ignore_failed_experiments = ignore_failed_experiments]
    /\ UNCHANGED <<assoc, auth, server, vin, vst, demos, cacheVars, pipeVars, legacyVars>>

\* LoadCachedResults as it would be if the dataset were not compared.
LoadCachedResultsOfAnyDataset ==
    /\ bexec.pc = "load_cached_results"
    /\ bexec' = [bexec EXCEPT
                   !.pc = "run_experiments",
                   !.cached_results = {r \in bexec.store :
                                         r.benchmark = bexec.benchmark_uid}]
    /\ UNCHANGED <<assoc, auth, server, vin, vst, demos, cacheVars, pipeVars, legacyVars>>

\* load_cached_results(): the stored results of this benchmark and dataset,
\* by model
LoadCachedResults ==
    /\ bexec.pc = "load_cached_results"
    /\ bexec' = [bexec EXCEPT
                   !.pc = "run_experiments",
                   !.cached_results = {r \in bexec.store :
                                         /\ r.benchmark = bexec.benchmark_uid
                                         /\ r.dataset = bexec.data_uid}]
    /\ UNCHANGED <<assoc, auth, server, vin, vst, demos, cacheVars, pipeVars, legacyVars>>

\* An experiment that failed with an error __handle_experiment_error lets
\* pass.
Failed(e, error) ==
    [e EXCEPT !.executed = Append(@, Len(e.experiments) + 1),
              !.experiments = Append(@, [model_uid |-> NextModel(e),
                                         result |-> NoExecResult, cached |-> FALSE,
                                         error |-> error])]

ExecRaise(e, error) ==
    [e EXCEPT !.pc = "raised", !.err = error,
              !.executed = Append(@, Len(e.experiments) + 1)]

\* RunExperiment as it would be if every error of an experiment were
\* suppressed under ignore_failed_experiments.
RunExperimentSuppressingAny ==
    /\ bexec.pc = "run_experiments"
    /\ Len(bexec.experiments) < Len(bexec.models_uids)
    /\ LET model_uid == NextModel(bexec)
           position == Len(bexec.experiments) + 1
       IN  IF CachedFor(bexec, model_uid) # {}
           THEN \E result \in CachedFor(bexec, model_uid) :
                   bexec' = [bexec EXCEPT
                               !.experiments = Append(@, [model_uid |-> model_uid,
                                                          result |-> result,
                                                          cached |-> TRUE,
                                                          error |-> ""])]
           ELSE \/ \E error \in {"InvalidEntityError", "ExecutionError",
                                 "CommunicationError"} :
                      bexec' = IF bexec.ignore_failed_experiments
                               THEN Failed(bexec, error)
                               ELSE ExecRaise(bexec, error)
                \/ \E partial \in BOOLEAN :
                      LET result == [benchmark |-> bexec.benchmark_uid,
                                     dataset |-> bexec.data_uid, model |-> model_uid,
                                     partial |-> partial, origin |-> "now"]
                      IN  bexec' = [bexec EXCEPT
                                      !.executed = Append(@, position),
                                      !.written = Append(@, position),
                                      !.store = Result_write(@, result),
                                      !.experiments =
                                          Append(@, [model_uid |-> model_uid,
                                                     result |-> result,
                                                     cached |-> FALSE,
                                                     error |-> ""])]
    /\ UNCHANGED <<assoc, auth, server, vin, vst, demos, cacheVars, pipeVars, legacyVars>>

\* run_experiments(), one turn of the loop: a model with a cached result is
\* recorded with it; otherwise the cube is fetched and the execution runs,
\* either of which may fail, and the result of a success is written.
\* __handle_experiment_error re-raises what is neither an InvalidEntityError
\* nor an ExecutionError, and those too without ignore_failed_experiments.
RunExperiment ==
    /\ bexec.pc = "run_experiments"
    /\ Len(bexec.experiments) < Len(bexec.models_uids)
    /\ LET model_uid == NextModel(bexec)
           position == Len(bexec.experiments) + 1
       IN  IF CachedFor(bexec, model_uid) # {}
           THEN \E result \in CachedFor(bexec, model_uid) :
                   bexec' = [bexec EXCEPT
                               !.experiments = Append(@, [model_uid |-> model_uid,
                                                          result |-> result,
                                                          cached |-> TRUE,
                                                          error |-> ""])]
           ELSE \/ \E error \in {"InvalidEntityError", "ExecutionError"} :
                      bexec' = IF bexec.ignore_failed_experiments
                               THEN Failed(bexec, error)
                               ELSE ExecRaise(bexec, error)
                \/ bexec' = ExecRaise(bexec, "CommunicationError")
                \/ \E partial \in BOOLEAN :
                      LET result == [benchmark |-> bexec.benchmark_uid,
                                     dataset |-> bexec.data_uid, model |-> model_uid,
                                     partial |-> partial, origin |-> "now"]
                      IN  bexec' = [bexec EXCEPT
                                      !.executed = Append(@, position),
                                      !.written = Append(@, position),
                                      !.store = Result_write(@, result),
                                      !.experiments =
                                          Append(@, [model_uid |-> model_uid,
                                                     result |-> result,
                                                     cached |-> FALSE,
                                                     error |-> ""])]
    /\ UNCHANGED <<assoc, auth, server, vin, vst, demos, cacheVars, pipeVars, legacyVars>>

\* run_experiments(): the loop is over, the results of the experiments are
\* returned.
RunExperimentsReturn ==
    /\ bexec.pc = "run_experiments"
    /\ Len(bexec.experiments) = Len(bexec.models_uids)
    /\ bexec' = [bexec EXCEPT
                   !.pc = "returned",
                   !.returned = [i \in 1..Len(bexec.experiments) |->
                                    bexec.experiments[i].result]]
    /\ UNCHANGED <<assoc, auth, server, vin, vst, demos, cacheVars, pipeVars, legacyVars>>

\* The storage holds any results of earlier executions.
InitExec ==
    /\ bexec \in {[NoBExec EXCEPT !.store = stored, !.loaded = stored] :
                    stored \in SUBSET EarlierResults}
    /\ assoc = NoAssoc
    /\ server = NoServer
    /\ auth = NoAuth
    /\ legacy = NoLegacy
    /\ legacyResults = {}
    /\ vin = [f \in InputNames |-> ""]
    /\ vst = NewValidator
    /\ run = NoRun
    /\ reports = {}
    /\ past = RunSummary(NoRun)
    /\ nruns = 0
    /\ files = Fresh.files
    /\ images = Fresh.images
    /\ links = Fresh.links
    /\ additional = Fresh.additional
    /\ cacheMeta = Fresh.cacheMeta
    /\ demos = Fresh.demos
    /\ call = [p \in Procs |-> IdleCall]
    /\ prev = Summary(IdleCall)
    /\ pre = Fresh
    /\ ncalls = 0

NextExec ==
    \/ BenchmarkExecutionRun
    \/ LoadCachedResults
    \/ RunExperiment
    \/ RunExperimentsReturn

SpecExec == InitExec /\ [][NextExec]_vars

\* The results the storage held, when the execution began, for this
\* benchmark, this dataset and a model.
StoredFor(model_uid) ==
    {r \in bexec.loaded : /\ r.benchmark = bexec.benchmark_uid
                          /\ r.dataset = bexec.data_uid
                          /\ r.model = model_uid}

HasCachedResult(model_uid) == bexec.use_cache /\ StoredFor(model_uid) # {}

\* C34: a model with a cached result, under use_cache and for the same
\* benchmark and dataset, is never executed and its cached result is
\* returned; when the loop is over the experiments are one per model of
\* models_uids in their order, and the returned list is as long.
C34_CachedModelsNotExecuted ==
    /\ Len(bexec.experiments) <= Len(bexec.models_uids)
    /\ \A i \in 1..Len(bexec.experiments) :
          /\ bexec.experiments[i].model_uid = bexec.models_uids[i]
          /\ HasCachedResult(bexec.models_uids[i]) =>
                /\ bexec.experiments[i].cached
                /\ bexec.experiments[i].result \in StoredFor(bexec.models_uids[i])
          /\ bexec.experiments[i].cached => HasCachedResult(bexec.models_uids[i])
    /\ \A j \in 1..Len(bexec.executed) :
          ~HasCachedResult(bexec.models_uids[bexec.executed[j]])
    /\ bexec.pc = "returned" =>
          /\ Len(bexec.experiments) = Len(bexec.models_uids)
          /\ Len(bexec.returned) = Len(bexec.models_uids)
          /\ \A i \in 1..Len(bexec.returned) :
                bexec.returned[i] = bexec.experiments[i].result

C34_Witness ==
    /\ bexec.pc = "returned"
    /\ Len(bexec.models_uids) = 2
    /\ bexec.models_uids[1] # bexec.models_uids[2]
    /\ HasCachedResult(bexec.models_uids[1])
    /\ ~HasCachedResult(bexec.models_uids[2])
    /\ bexec.executed = <<2>>
    /\ \E r \in bexec.loaded : r.model = bexec.models_uids[2]

Suppressible == {"InvalidEntityError", "ExecutionError"}

\* C35: an InvalidEntityError or ExecutionError of one model is suppressed
\* exactly under ignore_failed_experiments: the model is then recorded with
\* no result and the error, nothing is written for it and the models after
\* it are processed. Without ignore_failed_experiments, and for any other
\* error, the error reaches the caller and no later model is processed.
C35_FailuresSuppressedOnlyOnRequest ==
    /\ \A i \in 1..Len(bexec.experiments) :
          bexec.experiments[i].error # "" =>
              /\ bexec.ignore_failed_experiments
              /\ bexec.experiments[i].error \in Suppressible
              /\ bexec.experiments[i].result = NoExecResult
              /\ \A j \in 1..Len(bexec.written) : bexec.written[j] # i
    /\ bexec.pc = "raised" =>
          /\ bexec.err \in Suppressible => ~bexec.ignore_failed_experiments
          /\ Len(bexec.experiments) < Len(bexec.models_uids)
          /\ bexec.executed # <<>>
          /\ bexec.executed[Len(bexec.executed)] = Len(bexec.experiments) + 1
          /\ \A j \in 1..Len(bexec.written) : bexec.written[j] <= Len(bexec.experiments)
    /\ bexec.pc = "returned" =>
          /\ Len(bexec.experiments) = Len(bexec.models_uids)
          /\ bexec.err = "none"

C35_Witness ==
    /\ bexec.pc = "returned"
    /\ Len(bexec.experiments) = 2
    /\ bexec.experiments[1].error = "ExecutionError"
    /\ bexec.experiments[2].error = ""
    /\ bexec.written = <<2>>

----------------------------------------------------------------------------
(* comms/auth/auth0.py: Auth0.access_token *)

\* config.token_expiration_leeway
token_expiration_leeway == 10

\* The lifetimes the server grants, in seconds: shorter than the leeway,
\* and longer by one and by two seconds.
ExpiresIn == {token_expiration_leeway - 1, token_expiration_leeway + 1,
              token_expiration_leeway + 2}

AuthOver(a) == a.pc \in {"idle", "returned", "raised"}

\* A second passes.
Tick ==
    /\ auth.now < MaxTime
    /\ auth' = [auth EXCEPT !.now = @ + 1]
    /\ UNCHANGED <<assoc, bexec, server, vin, vst, demos, cacheVars, pipeVars, legacyVars>>

\* AccessToken as it would be if the token were refreshed only once it has
\* expired.
AccessTokenWithoutLeeway ==
    /\ AuthOver(auth)
    /\ auth.n < MaxCalls
    /\ LET creds == auth.creds
           a == [auth EXCEPT !.n = @ + 1, !.at = auth.now, !.before = creds,
                             !.asked = FALSE, !.err = "none"]
       IN  auth' = IF auth.now > creds.issued_at + creds.expires_in
                   THEN [a EXCEPT !.pc = "refresh", !.asked = TRUE,
                                  !.sent = creds.refresh_token]
                   ELSE [a EXCEPT !.pc = "returned", !.returned = creds.access_token]
    /\ UNCHANGED <<assoc, bexec, server, vin, vst, demos, cacheVars, pipeVars, legacyVars>>

\* access_token: the credentials are read and the clock is compared; without
\* a refresh the stored access token is returned.
AccessToken ==
    /\ AuthOver(auth)
    /\ auth.n < MaxCalls
    /\ LET creds == auth.creds
           a == [auth EXCEPT !.n = @ + 1, !.at = auth.now, !.before = creds,
                             !.asked = FALSE, !.err = "none"]
       IN  auth' = IF auth.now > creds.issued_at + creds.expires_in
                                 - token_expiration_leeway
                   THEN [a EXCEPT !.pc = "refresh", !.asked = TRUE,
                                  !.sent = creds.refresh_token]
                   ELSE [a EXCEPT !.pc = "returned", !.returned = creds.access_token]
    /\ UNCHANGED <<assoc, bexec, server, vin, vst, demos, cacheVars, pipeVars, legacyVars>>

\* __refresh_access_token: the clock is read, the request is sent; a status
\* other than 200 raises, otherwise the tokens of the response are stored
\* with the second read before the request, and the new access token is
\* returned.
RefreshAccessToken ==
    /\ auth.pc = "refresh"
    /\ LET issued_at == auth.now
       IN  \/ auth' = [auth EXCEPT !.pc = "raised", !.err = "CommunicationError",
                                   !.refreshed_at = issued_at]
           \/ \E expires_in \in ExpiresIn :
                 LET k == auth.issued + 1
                     res == [access_token |-> <<"access", k>>,
                             refresh_token |-> <<"refresh", k>>,
                             expires_in |-> expires_in, issued_at |-> issued_at]
                 IN  auth' = [auth EXCEPT !.pc = "returned", !.issued = k, !.res = res,
                                          !.refreshed_at = issued_at,
                                          !.creds = res,
                                          !.returned = res.access_token]
    /\ UNCHANGED <<assoc, bexec, server, vin, vst, demos, cacheVars, pipeVars, legacyVars>>

\* The user has logged in at second 0, with any lifetime.
InitAuth ==
    /\ auth \in {[NoAuth EXCEPT !.creds.expires_in = e, !.before.expires_in = e] :
                   e \in ExpiresIn}
    /\ assoc = NoAssoc
    /\ server = NoServer
    /\ bexec = NoBExec
    /\ legacy = NoLegacy
    /\ legacyResults = {}
    /\ vin = [f \in InputNames |-> ""]
    /\ vst = NewValidator
    /\ run = NoRun
    /\ reports = {}
    /\ past = RunSummary(NoRun)
    /\ nruns = 0
    /\ files = Fresh.files
    /\ images = Fresh.images
    /\ links = Fresh.links
    /\ additional = Fresh.additional
    /\ cacheMeta = Fresh.cacheMeta
    /\ demos = Fresh.demos
    /\ call = [p \in Procs |-> IdleCall]
    /\ prev = Summary(IdleCall)
    /\ pre = Fresh
    /\ ncalls = 0

NextAuth ==
    \/ Tick
    \/ AccessToken
    \/ RefreshAccessToken

SpecAuth == InitAuth /\ [][NextAuth]_vars

\* The call in progress found the token due for a refresh.
RefreshDue ==
    auth.at > auth.before.issued_at + auth.before.expires_in - token_expiration_leeway

\* C36: access_token asks for a refresh exactly when the clock is later than
\* issued_at + expires_in - token_expiration_leeway. After a refresh the
\* stored credentials are the new access token, the new refresh token, the
\* new expires_in and the second of the refresh, and the token returned is
\* the stored one; after a failed request the stored credentials are as
\* before and an error is raised.
C36_RefreshWhenDue ==
    /\ auth.n > 0 => (auth.asked <=> RefreshDue)
    /\ auth.pc = "refresh" => auth.asked /\ auth.sent = auth.before.refresh_token
    /\ auth.pc = "returned" =>
          /\ auth.returned = auth.creds.access_token
          /\ auth.asked =>
                /\ auth.creds = [auth.res EXCEPT !.issued_at = auth.refreshed_at]
                /\ auth.creds.access_token # auth.before.access_token
                /\ auth.creds.refresh_token # auth.before.refresh_token
                /\ auth.refreshed_at >= auth.at
          /\ ~auth.asked => auth.creds = auth.before
    /\ auth.pc = "raised" =>
          /\ auth.asked
          /\ auth.creds = auth.before
          /\ auth.err = "CommunicationError"

C36_Witness ==
    /\ auth.pc = "returned"
    /\ auth.n = 2
    /\ auth.asked
    /\ auth.before.issued_at = 0
    /\ auth.before.expires_in = token_expiration_leeway + 2
    /\ auth.at = 3
    /\ auth.creds.issued_at = 3

----------------------------------------------------------------------------
(* server/benchmark/serializers.py *)

Users == {"u1", "u2"}
States == {"DEVELOPMENT", "OPERATION"}
ApprovalStatuses == {"PENDING", "APPROVED", "REJECTED"}

\* The data of an update request: each field is given or not ("-").
UpdateData == [approval_status : ApprovalStatuses \cup {"-"},
               state : States \cup {"-"},
               user_metadata : {"-", "a", "b"},
               name : {"-", "n1", "n2"}]

Has(data, k) == data[k] # "-"

editable_fields == {"user_metadata", "approval_status"}

\* BenchmarkApprovalSerializer.validate without the test of the development
\* stage.
approval_validate_any_stage(instance, data) ==
    /\ Has(data, "approval_status") =>
          /\ data.approval_status # "PENDING"
          /\ data.approval_status = "APPROVED" => instance.approval_status # "REJECTED"
    /\ instance.state = "OPERATION" =>
          \A k \in DOMAIN data :
             Has(data, k) /\ k \notin editable_fields => data[k] = instance[k]
    /\ (Has(data, "state") /\ data.state = "OPERATION" /\ instance.state # "OPERATION")
          => instance.cubes_operational

\* BenchmarkApprovalSerializer.validate(data): TRUE when no ValidationError
\* is raised.
approval_validate(instance, data) ==
    /\ Has(data, "approval_status") =>
          /\ data.approval_status # "PENDING"
          /\ instance.state # "DEVELOPMENT"
          /\ data.approval_status = "APPROVED" => instance.approval_status # "REJECTED"
    /\ instance.state = "OPERATION" =>
          \A k \in DOMAIN data :
             Has(data, k) /\ k \notin editable_fields => data[k] = instance[k]
    /\ (Has(data, "state") /\ data.state = "OPERATION" /\ instance.state # "OPERATION")
          => instance.cubes_operational

\* BenchmarkApprovalSerializer.update(instance, validated_data) at time now
approval_update(instance, data, now) ==
    LET set == [k \in DOMAIN instance |->
                   IF k \in DOMAIN data /\ Has(data, k) THEN data[k] ELSE instance[k]]
    IN  IF set.approval_status # "PENDING" THEN [set EXCEPT !.approved_at = now]
        ELSE set

\* An update request on benchmark 1: it is validated and, when valid,
\* applied; the clock has moved on since the request before.
ApprovalRequest ==
    /\ server.n < MaxUpdates
    /\ Len(server.benchmarks) = 1
    /\ \E data \in UpdateData :
          LET instance == server.benchmarks[1]
              now == server.now + 1
              valid == approval_validate(instance, data)
          IN  server' = [server EXCEPT
                 !.n = @ + 1,
                 !.now = now,
                 !.benchmarks[1] = IF valid THEN approval_update(instance, data, now)
                                   ELSE instance,
                 !.last = [data |-> data, before |-> instance,
                           outcome |-> IF valid THEN "ok" ELSE "ValidationError"]]
    /\ UNCHANGED <<assoc, bexec, auth, vin, vst, demos, cacheVars, pipeVars, legacyVars>>

\* One benchmark as its creation leaves it: pending, never approved, in
\* operation only with operational cubes.
InitApproval ==
    /\ server \in {[NoServer EXCEPT !.benchmarks =
                      <<[owner |-> "u1", state |-> c[1], approval_status |-> "PENDING",
                         approved_at |-> 0, user_metadata |-> "a", name |-> "n1",
                         cubes_operational |-> c[2]]>>] :
                     c \in {d \in States \X BOOLEAN : d[1] = "OPERATION" => d[2]}}
    /\ assoc = NoAssoc
    /\ bexec = NoBExec
    /\ auth = NoAuth
    /\ legacy = NoLegacy
    /\ legacyResults = {}
    /\ vin = [f \in InputNames |-> ""]
    /\ vst = NewValidator
    /\ run = NoRun
    /\ reports = {}
    /\ past = RunSummary(NoRun)
    /\ nruns = 0
    /\ files = Fresh.files
    /\ images = Fresh.images
    /\ links = Fresh.links
    /\ additional = Fresh.additional
    /\ cacheMeta = Fresh.cacheMeta
    /\ demos = Fresh.demos
    /\ call = [p \in Procs |-> IdleCall]
    /\ prev = Summary(IdleCall)
    /\ pre = Fresh
    /\ ncalls = 0

NextApproval == ApprovalRequest

SpecApproval == InitApproval /\ [][NextApproval]_vars

\* The update served last was accepted.
Accepted == server.last.outcome = "ok"

\* C37: over the updates BenchmarkApprovalSerializer accepts, the approval
\* status never returns to PENDING, a REJECTED benchmark never becomes
\* APPROVED, the approval status does not change while the benchmark is in
\* DEVELOPMENT, and a benchmark in OPERATION never returns to DEVELOPMENT.
C37_ApprovalMovesForward ==
    Accepted /\ Len(server.benchmarks) = 1 =>
        LET before == server.last.before
            after == server.benchmarks[1]
        IN  /\ after.approval_status = "PENDING" => before.approval_status = "PENDING"
            /\ Has(server.last.data, "approval_status") =>
                  server.last.data.approval_status # "PENDING"
            /\ before.approval_status = "REJECTED" => after.approval_status # "APPROVED"
            /\ before.state = "DEVELOPMENT" =>
                  after.approval_status = before.approval_status
            /\ before.state = "OPERATION" => after.state = "OPERATION"

C37_Witness ==
    /\ Accepted
    /\ Len(server.benchmarks) = 1
    /\ server.n = 3
    /\ server.last.before.approval_status = "APPROVED"
    /\ server.benchmarks[1].approval_status = "REJECTED"
    /\ server.benchmarks[1].owner = "u1"
    /\ server.benchmarks[1].cubes_operational

\* C38: approved_at is set only by an update that moves the approval status
\* away from PENDING; an update of other fields of an approved or rejected
\* benchmark leaves approved_at as it is.
C38_ApprovedAtOnlyOnDecision ==
    Accepted /\ Len(server.benchmarks) = 1 =>
        LET before == server.last.before
            after == server.benchmarks[1]
        IN  after.approved_at # before.approved_at =>
               /\ before.approval_status = "PENDING"
               /\ after.approval_status # "PENDING"

\* The pending benchmarks of a user.
pending_benchmarks(benchmarks, owner) ==
    {i \in 1..Len(benchmarks) : /\ benchmarks[i].owner = owner
                                /\ benchmarks[i].approval_status = "PENDING"}

\* BenchmarkSerializer.validate(data) for a request of owner: TRUE when no
\* ValidationError is raised.
create_validate(benchmarks, owner, data) ==
    /\ pending_benchmarks(benchmarks, owner) = {}
    /\ data.state = "OPERATION" => data.cubes_operational

\* A creation request arrives and is validated against the benchmarks
\* stored at that moment.
CreateValidate(r) ==
    /\ server.creates[r].pc = "idle"
    /\ \E owner \in Users, state \in States, cubes_operational \in BOOLEAN :
          LET data == [state |-> state, cubes_operational |-> cubes_operational]
          IN  server' = [server EXCEPT
                 !.creates[r] = [pc |-> IF create_validate(server.benchmarks, owner, data)
                                        THEN "validated" ELSE "ValidationError",
                                 owner |-> owner, state |-> state,
                                 cubes_operational |-> cubes_operational]]
    /\ UNCHANGED <<assoc, bexec, auth, vin, vst, demos, cacheVars, pipeVars, legacyVars>>

\* The validated request is saved: the benchmark is stored for its owner,
\* pending and never approved.
CreateSave(r) ==
    /\ server.creates[r].pc = "validated"
    /\ LET c == server.creates[r]
       IN  server' = [server EXCEPT
              !.creates[r].pc = "saved",
              !.benchmarks = Append(@, [owner |-> c.owner, state |-> c.state,
                                        approval_status |-> "PENDING", approved_at |-> 0,
                                        user_metadata |-> "a", name |-> "n1",
                                        cubes_operational |-> c.cubes_operational])]
    /\ UNCHANGED <<assoc, bexec, auth, vin, vst, demos, cacheVars, pipeVars, legacyVars>>

Requests == 1..MaxRequests

\* No benchmark is stored and no request has arrived.
InitCreate ==
    /\ server = [NoServer EXCEPT !.creates = [r \in Requests |-> NoCreate]]
    /\ assoc = NoAssoc
    /\ bexec = NoBExec
    /\ auth = NoAuth
    /\ legacy = NoLegacy
    /\ legacyResults = {}
    /\ vin = [f \in InputNames |-> ""]
    /\ vst = NewValidator
    /\ run = NoRun
    /\ reports = {}
    /\ past = RunSummary(NoRun)
    /\ nruns = 0
    /\ files = Fresh.files
    /\ images = Fresh.images
    /\ links = Fresh.links
    /\ additional = Fresh.additional
    /\ cacheMeta = Fresh.cacheMeta
    /\ demos = Fresh.demos
    /\ call = [p \in Procs |-> IdleCall]
    /\ prev = Summary(IdleCall)
    /\ pre = Fresh
    /\ ncalls = 0

NextCreate ==
    \/ \E r \in Requests : CreateValidate(r)
    \/ \E r \in Requests : CreateSave(r)

SpecCreate == InitCreate /\ [][NextCreate]_vars

\* C39: in every state of the server each user owns at most one benchmark
\* whose approval status is PENDING, whatever the order and the interleaving
\* of the creation requests that pass BenchmarkSerializer.validate.
C39_OnePendingPerUser ==
    \A u \in Users : Cardinality(pending_benchmarks(server.benchmarks, u)) <= 1
====
